---- MODULE Spec2Model ----
(***************************************************************************)
(* Visitor-management backend: the visit-request lifecycle.                *)
(*                                                                         *)
(* The repository holds three parallel implementations of the lifecycle,  *)
(* each over its own record store:                                         *)
(*   app/            FastAPI + SQLAlchemy   (variables now .. result)      *)
(*   apps/visitors/  Django REST framework  (variables apps_visitors ..)   *)
(*   visitors/       Django REST framework  (variables visits, logs, ...)  *)
(* Each implementation has its own specification; the variables of the    *)
(* other two stay at their initial value.                                  *)
(***************************************************************************)
EXTENDS Integers, Sequences, FiniteSets, TLC

VARIABLES
    now,            \* the clock (datetime.utcnow / datetime.now), in ticks
    users,          \* app/: users table, id -> [role, is_approved, is_active]
    visitors,       \* app/: visitors table, row id = index
    requests,       \* app/: visit_requests table, row id = index
    blacklist,      \* app/: blacklist table, a set of rows with their id
    blSeq,          \* app/: last id handed out for a blacklist row
    notifications,  \* app/: notifications table, rows per (user_id, type)
    result,         \* app/: the response of the last call that went through
    txn,            \* apps/visitors: the approve calls in flight, one per server thread
    calls,          \* app/: the creation calls in flight on the event loop
    retry,          \* app/utils/helpers.py: the frame of a retry_on_exception wrapper
    apps_visitors,      \* apps/visitors: Visitor rows
    apps_requests,      \* apps/visitors: VisitRequest rows
    apps_blacklist,     \* apps/visitors: BlacklistedVisitor rows
    apps_notifications, \* apps/notifications: Notification rows
    apps_result,        \* apps/visitors: the response of the last call that went through
    visits,         \* visitors/: Visitor rows (one row per visit)
    logs,           \* visitors/: VisitorLog rows
    vis_notifications, \* notifications/: Notification rows, per (recipient, type)
    vis_result      \* visitors/: the response of the last call that went through

appVars  == <<users, visitors, requests, blacklist, blSeq, notifications, result>>
appsVars == <<apps_visitors, apps_requests, apps_blacklist, apps_notifications, apps_result>>
visVars  == <<visits, logs, vis_notifications, vis_result>>
vars     == <<now, appVars, txn, calls, appsVars, visVars, retry>>

---------------------------------------------------------------------------
(* Bounds of the model *)

MaxDay      == 1    \* the clock runs over the days 0..MaxDay
MaxRequests == 2    \* rows in a visit-request table
MaxNotifications == 2    \* notifications of one type one user is sent
MaxLogs == 4    \* rows in the visitor audit log

Today == now
Days  == 0 .. MaxDay

---------------------------------------------------------------------------
(* The actors and the inputs *)

Residents     == {"r1", "r2"}
SecurityUsers == {"s1", "s2"}
Admins        == {"a1"}
Users         == Residents \cup SecurityUsers \cup Admins
Phones        == {"p1", "p2"}

NoUser  == "none"
NoTime  == -1
NoToken == <<>>
BogusToken == <<0, NoUser, <<0, 0>>>>  \* a token no request was ever issued

Role(u) == IF u \in Residents THEN "resident"
           ELSE IF u \in SecurityUsers THEN "security" ELSE "admin"

(* query(...).first(): the lowest row id that matches, 0 when none does *)
First(S) == IF S = {} THEN 0 ELSE CHOOSE x \in S : \A y \in S : x <= y

Ids(table) == 1 .. Len(table)

RequestIds == 1 .. MaxRequests

(* A response: the HTTP status code and what the detail says, with the     *)
(* actor, the row and the token the call worked on.                        *)
Response(op, actor, req, code, detail, qr) ==
    [op |-> op, actor |-> actor, req |-> req, code |-> code, detail |-> detail, qr |-> qr]

Ok   == <<200, "ok">>
NoResponse == Response("none", NoUser, 0, 0, "", NoToken)

(* what a view of apps/visitors returns: the view, the row, the HTTP code *)
AppsResponse(op, req, code, detail) ==
    [op |-> op, req |-> req, code |-> code, detail |-> detail]

AppsNoResponse == AppsResponse("none", 0, 0, "")

(* The threads of the Django server that serve requests at the same time *)
Workers == {"w1", "w2"}

(* A thread that serves no call *)
IdleCall == [pc |-> "idle", actor |-> NoUser, pk |-> 0, visit_request |-> <<>>, code |-> 0]

(* The calls the event loop of app/ has in flight at the same time: each   *)
(* async handler is a task that gives way at its awaits only               *)
Tasks == {"t1", "t2"}

(* No decorated function is being called *)
IdleWrapper ==
    [pc |-> "idle", max_retries |-> 0, attempt |-> 0, current_delay |-> 0, backoff |-> 0,
     last_exception |-> "None", called |-> <<>>, slept |-> 0, raised |-> "None"]

(* A task that serves no call *)
IdleCreate ==
    [pc |-> "idle", op |-> "none", actor |-> NoUser, req |-> 0, code |-> 0, during |-> {},
     mailed |-> {}, mail |-> "none"]

---------------------------------------------------------------------------
(* app/ : FastAPI implementation *)

VisitStatus == {"pending", "approved", "denied", "completed", "cancelled"}

(* generate_qr_code is imported from app.utils.helpers, which does not     *)
(* define it; the token is a function of the string the callers build,     *)
(* f"visit_{visitor_id}_{resident_id}_{timestamp}".                        *)
generate_qr_code(visitor_id, resident_id, ts) == <<visitor_id, resident_id, ts>>

(* datetime.utcnow().timestamp() where a token is built: the day, and a    *)
(* reading within it that is later at each token issued (the handlers of   *)
(* the single uvicorn process run one at a time)                           *)
utcnow_timestamp ==
    <<now, Cardinality({i \in Ids(requests) : requests[i].qr_code # NoToken})>>

(* The notification types the handlers of app/ pass to create_notification *)
NotificationTypes ==
    {"visit_request", "visitor_approved", "walk_in_request", "visit_cancelled", "account_status"}

(* notification_type values the visitors/ views pass to                   *)
(* send_visitor_notification                                              *)
VisNotificationTypes ==
    {"new_visitor_request", "visitor_approved", "visitor_denied",
     "visitor_checked_in", "visitor_checked_out"}

(* notification_type values the apps/visitors views create *)
AppsNotificationTypes == {"visit_request", "visit_approved", "walk_in_visitor"}

(* create_notification(db, user_id, ..., notification_type) adds one row;  *)
(* the table is kept as the number of rows per (user_id, notification_type) *)
create_notification(table, user_id, ntype) ==
    [table EXCEPT ![<<user_id, ntype>>] = @ + 1]

(* for security_user in security_users: await create_notification(...) *)
RECURSIVE NotifyAll(_, _, _)
NotifyAll(table, recipients, ntype) ==
    IF recipients = {} THEN table
    ELSE LET u == CHOOSE x \in recipients : TRUE
         IN  NotifyAll(create_notification(table, u, ntype), recipients \ {u}, ntype)

(* current_user.role == role and current_user.is_approved *)
ApprovedAs(u, role) == users[u].role = role /\ users[u].is_approved

(* The security officers as they were when the server started, whatever   *)
(* the users table says now                                                *)
ApprovedSecurity_at_startup == {"s1"}

(* User rows with role == "security" and is_approved == True *)
ApprovedSecurity == {u \in Users : users[u].role = "security" /\ users[u].is_approved}

(* Blacklist rows with visitor_phone, resident_id and is_active == True *)
ActiveBlacklist(phone, resident_id) ==
    {b \in blacklist : b.visitor_phone = phone /\ b.resident_id = resident_id /\ b.is_active}

VisitorByPhone(phone) == First({i \in Ids(visitors) : visitors[i].phone_number = phone})

(* The id of the visitor a registration works on: the existing row, or    *)
(* the row db.add / db.flush is about to create                           *)
VisitorIdFor(phone) ==
    IF VisitorByPhone(phone) = 0 THEN Len(visitors) + 1 ELSE VisitorByPhone(phone)

(* The contact details of a visitor (name, email, id number) are not part *)
(* of the lifecycle and are not kept                                       *)
NewVisitor(phone) == [phone_number |-> phone]

WithVisitor(phone) ==
    IF VisitorByPhone(phone) = 0 THEN Append(visitors, NewVisitor(phone)) ELSE visitors

NewRequest(visitor_id, resident_id, visit_date, status, walk_in, recorder) ==
    [visitor_id |-> visitor_id, resident_id |-> resident_id, visit_date |-> visit_date,
     status |-> status, qr_code |-> NoToken,
     approved_at |-> NoTime, denied_at |-> NoTime,
     cancelled_at |-> NoTime, completed_at |-> NoTime,
     completed_by |-> NoUser, is_walk_in |-> walk_in, recorded_by |-> recorder]

InitTable(rows) ==
    /\ now = 0
    /\ users = [u \in Users |->
                  [role |-> Role(u), is_approved |-> (u # "s2"), is_active |-> (u # "s2")]]
    /\ visitors = <<>>
    /\ requests = <<>>
    /\ blacklist = rows
    /\ blSeq = Cardinality(rows)
    /\ notifications = [k \in Users \X NotificationTypes |-> 0]
    /\ result = NoResponse
    /\ txn = [w \in Workers |-> IdleCall]
    /\ calls = [t \in Tasks |-> IdleCreate]
    /\ retry = IdleWrapper
    /\ apps_visitors = <<>>
    /\ apps_requests = <<>>
    /\ apps_blacklist = {}
    /\ apps_notifications = [k \in Users \X AppsNotificationTypes |-> 0]
    /\ apps_result = AppsNoResponse
    /\ visits = <<>>
    /\ logs = <<>>
    /\ vis_notifications = [k \in Users \X VisNotificationTypes |-> 0]
    /\ vis_result = AppsNoResponse

(* The state after startup: create_tables() on an empty database *)
Init == InitTable({})

(* The clock advances between calls *)
Tick ==
    /\ now < MaxDay
    /\ now' = now + 1
    /\ UNCHANGED <<appVars, txn, calls, appsVars, visVars, retry>>

(* raise HTTPException(status_code, detail) before db.commit(): the session *)
(* is closed and nothing it held is written. The response of a rejected    *)
(* call is the value of the handler's _outcome operator; result keeps the  *)
(* response of the last call that went through.                            *)
Reject(op, out) ==
    /\ out # Ok
    /\ UNCHANGED <<result, users, visitors, requests, blacklist, blSeq, notifications>>

(* register_visit_request: the checks, in the order the handler makes them *)
register_visit_request_outcome(phone, resident_id, visit_date) ==
    IF ~ApprovedAs(resident_id, "resident") THEN <<404, "resident_not_found">>
    ELSE IF ActiveBlacklist(phone, resident_id) # {} THEN <<400, "blacklisted">>
    ELSE IF \E i \in Ids(requests) :
                /\ requests[i].visitor_id = VisitorIdFor(phone)
                /\ requests[i].resident_id = resident_id
                /\ requests[i].visit_date = visit_date
                /\ requests[i].status = "pending"
         THEN <<400, "duplicate_pending">>
    ELSE Ok

(* POST /visitor/register : the anonymous visitor form *)
register_visit_request(phone, resident_id, visit_date) ==
    LET op == "register_visit_request"
        out == register_visit_request_outcome(phone, resident_id, visit_date)
    IN
    /\ UNCHANGED <<now, txn, calls, appsVars, visVars, retry>>
    /\ IF out # Ok
       THEN Reject(op, out)
       ELSE /\ Len(requests) < MaxRequests
            /\ visitors' = WithVisitor(phone)
            /\ requests' = Append(requests,
                   NewRequest(VisitorIdFor(phone), resident_id, visit_date,
                              "pending", FALSE, NoUser))
            /\ notifications' = create_notification(notifications, resident_id, "visit_request")
            /\ result' = Response(op, NoUser, Len(requests) + 1, 200, "created", NoToken)
            /\ UNCHANGED <<users, blacklist, blSeq>>

register_visitor_outcome(actor, phone) ==
    IF ~ApprovedAs(actor, "resident") THEN <<403, "access_denied">>
    ELSE IF ActiveBlacklist(phone, actor) # {} THEN <<400, "blacklisted">>
    ELSE Ok

(* POST /resident/register-visitor : the resident registers a visitor *)
register_visitor(actor, phone, visit_date) ==
    LET op == "register_visitor"
        out == register_visitor_outcome(actor, phone)
        row == [NewRequest(VisitorIdFor(phone), actor, visit_date, "approved", FALSE, NoUser)
                   EXCEPT !.approved_at = now,
                          !.qr_code = generate_qr_code(VisitorIdFor(phone), actor, utcnow_timestamp)]
    IN
    /\ UNCHANGED <<now, txn, calls, appsVars, visVars, retry>>
    /\ IF out # Ok
       THEN Reject(op, out)
       ELSE /\ Len(requests) < MaxRequests
            /\ visitors' = WithVisitor(phone)
            /\ requests' = Append(requests, row)
            /\ notifications' = NotifyAll(notifications, ApprovedSecurity, "visitor_approved")
            /\ result' = Response(op, actor, Len(requests) + 1, 200, "created", row.qr_code)
            /\ UNCHANGED <<users, blacklist, blSeq>>

record_walk_in_entry_outcome(actor, phone, resident_id) ==
    IF ~ApprovedAs(actor, "security") THEN <<403, "access_denied">>
    ELSE IF ActiveBlacklist(phone, resident_id) # {} THEN <<400, "blacklisted">>
    ELSE IF ~ApprovedAs(resident_id, "resident") THEN <<404, "resident_not_found">>
    ELSE Ok

(* record_walk_in_entry that also tells the approved security officers *)
record_walk_in_entry_notifying_security(actor, phone, resident_id) ==
    LET op == "record_walk_in_entry"
        out == record_walk_in_entry_outcome(actor, phone, resident_id)
    IN
    /\ UNCHANGED <<now, txn, calls, appsVars, visVars, retry>>
    /\ IF out # Ok
       THEN Reject(op, out)
       ELSE /\ Len(requests) < MaxRequests
            /\ visitors' = WithVisitor(phone)
            /\ requests' = Append(requests,
                   NewRequest(VisitorIdFor(phone), resident_id, Today, "pending", TRUE, actor))
            /\ notifications' = NotifyAll(
                   create_notification(notifications, resident_id, "walk_in_request"),
                   ApprovedSecurity, "walk_in_request")
            /\ result' = Response(op, actor, Len(requests) + 1, 200, "created", NoToken)
            /\ UNCHANGED <<users, blacklist, blSeq>>

(* POST /security/record-entry : security records a walk-in *)
record_walk_in_entry(actor, phone, resident_id) ==
    LET op == "record_walk_in_entry"
        out == record_walk_in_entry_outcome(actor, phone, resident_id)
    IN
    /\ UNCHANGED <<now, txn, calls, appsVars, visVars, retry>>
    /\ IF out # Ok
       THEN Reject(op, out)
       ELSE /\ Len(requests) < MaxRequests
            /\ visitors' = WithVisitor(phone)
            /\ requests' = Append(requests,
                   NewRequest(VisitorIdFor(phone), resident_id, Today, "pending", TRUE, actor))
            /\ notifications' = create_notification(notifications, resident_id, "walk_in_request")
            /\ result' = Response(op, actor, Len(requests) + 1, 200, "created", NoToken)
            /\ UNCHANGED <<users, blacklist, blSeq>>

(* The row a resident's approve / deny call works on:                      *)
(* filter(id == request_id, resident_id == current_user.id).first()        *)
OwnRequest(actor, request_id) ==
    First({i \in Ids(requests) : i = request_id /\ requests[i].resident_id = actor})

(* approve_visit_request and deny_visit_request make the same checks *)
approve_visit_request_outcome(actor, request_id) ==
    IF ~ApprovedAs(actor, "resident") THEN <<403, "access_denied">>
    ELSE IF OwnRequest(actor, request_id) = 0 THEN <<404, "request_not_found">>
    ELSE IF requests[request_id].status # "pending" THEN <<400, "already_processed">>
    ELSE Ok

(* PUT /resident/approve-request/{request_id}, with ts the value that      *)
(* datetime.utcnow().timestamp() returns when the token is built           *)
approve_visit_request_at(actor, request_id, ts) ==
    LET op == "approve_visit_request"
        out == approve_visit_request_outcome(actor, request_id)
        qr == generate_qr_code(requests[request_id].visitor_id, actor, ts)
    IN
    /\ UNCHANGED <<now, txn, calls, appsVars, visVars, retry>>
    /\ IF out # Ok
       THEN Reject(op, out)
       ELSE /\ requests' = [requests EXCEPT ![request_id].status = "approved",
                                            ![request_id].approved_at = now,
                                            ![request_id].qr_code = qr]
            /\ notifications' = NotifyAll(notifications, ApprovedSecurity, "visitor_approved")
            /\ result' = Response(op, actor, request_id, 200, "approved", qr)
            /\ UNCHANGED <<users, visitors, blacklist, blSeq>>

(* PUT /resident/approve-request/{request_id} on a clock whose readings    *)
(* differ from call to call                                                *)
approve_visit_request(actor, request_id) ==
    approve_visit_request_at(actor, request_id, utcnow_timestamp)

(* The Blacklist row deny_visit_request adds *)
NewBlacklist(id, phone, resident_id, by) ==
    [id |-> id, visitor_phone |-> phone, resident_id |-> resident_id,
     reason |-> "Visit request denied by resident", blacklisted_by |-> by,
     is_permanent |-> TRUE, expires_at |-> NoTime, is_active |-> TRUE]

deny_visit_request_outcome(actor, request_id) ==
    IF ~ApprovedAs(actor, "resident") THEN <<403, "access_denied">>
    ELSE IF OwnRequest(actor, request_id) = 0 THEN <<404, "request_not_found">>
    ELSE IF requests[request_id].status # "pending" THEN <<400, "already_processed">>
    ELSE Ok

(* PUT /resident/deny-request/{request_id} *)
deny_visit_request(actor, request_id) ==
    LET op == "deny_visit_request"
        out == deny_visit_request_outcome(actor, request_id)
        phone == visitors[requests[request_id].visitor_id].phone_number
    IN
    /\ UNCHANGED <<now, txn, calls, appsVars, visVars, retry>>
    /\ IF out # Ok
       THEN Reject(op, out)
       ELSE /\ requests' = [requests EXCEPT ![request_id].status = "denied",
                                            ![request_id].denied_at = now]
            /\ blacklist' = blacklist \cup {NewBlacklist(blSeq + 1, phone, actor, actor)}
            /\ blSeq' = blSeq + 1
            /\ result' = Response(op, actor, request_id, 200, "denied", NoToken)
            /\ UNCHANGED <<users, visitors, notifications>>

cancel_visit_request_outcome(request_id, phone) ==
    IF request_id \notin Ids(requests) THEN <<404, "request_not_found">>
    ELSE IF visitors[requests[request_id].visitor_id].phone_number # phone
         THEN <<403, "not_authorized">>
    ELSE IF requests[request_id].status # "pending" THEN <<400, "not_pending">>
    ELSE Ok

(* cancel_visit_request with the blacklist insert of deny_visit_request *)
cancel_visit_request_blacklisting(request_id, phone) ==
    LET op == "cancel_visit_request"
        out == cancel_visit_request_outcome(request_id, phone)
    IN
    /\ UNCHANGED <<now, txn, calls, appsVars, visVars, retry>>
    /\ IF out # Ok
       THEN Reject(op, out)
       ELSE /\ requests' = [requests EXCEPT ![request_id].status = "cancelled",
                                            ![request_id].cancelled_at = now]
            /\ notifications' = create_notification(notifications,
                                    requests[request_id].resident_id, "visit_cancelled")
            /\ blacklist' = blacklist \cup
                   {NewBlacklist(blSeq + 1, phone, requests[request_id].resident_id, NoUser)}
            /\ blSeq' = blSeq + 1
            /\ result' = Response(op, phone, request_id, 200, "cancelled", NoToken)
            /\ UNCHANGED <<users, visitors>>

(* POST /visitor/cancel-request/{request_id}?phone_number= *)
cancel_visit_request(request_id, phone) ==
    LET op == "cancel_visit_request"
        out == cancel_visit_request_outcome(request_id, phone)
    IN
    /\ UNCHANGED <<now, txn, calls, appsVars, visVars, retry>>
    /\ IF out # Ok
       THEN Reject(op, out)
       ELSE /\ requests' = [requests EXCEPT ![request_id].status = "cancelled",
                                            ![request_id].cancelled_at = now]
            /\ notifications' = create_notification(notifications,
                                    requests[request_id].resident_id, "visit_cancelled")
            /\ result' = Response(op, phone, request_id, 200, "cancelled", NoToken)
            /\ UNCHANGED <<users, visitors, blacklist, blSeq>>

complete_visit_outcome(actor, request_id) ==
    IF ~ApprovedAs(actor, "security") THEN <<403, "access_denied">>
    ELSE IF request_id \notin Ids(requests) THEN <<404, "request_not_found">>
    ELSE IF requests[request_id].status # "approved" THEN <<400, "not_approved">>
    ELSE Ok

(* complete_visit with a notification to the resident added *)
complete_visit_notifying(actor, request_id) ==
    LET op == "complete_visit"
        out == complete_visit_outcome(actor, request_id)
    IN
    /\ UNCHANGED <<now, txn, calls, appsVars, visVars, retry>>
    /\ IF out # Ok
       THEN Reject(op, out)
       ELSE /\ requests' = [requests EXCEPT ![request_id].status = "completed",
                                            ![request_id].completed_at = now,
                                            ![request_id].completed_by = actor]
            /\ notifications' = create_notification(notifications,
                                    requests[request_id].resident_id, "visit_request")
            /\ result' = Response(op, actor, request_id, 200, "completed", NoToken)
            /\ UNCHANGED <<users, visitors, blacklist, blSeq>>

(* PUT /security/complete-visit/{request_id} *)
complete_visit(actor, request_id) ==
    LET op == "complete_visit"
        out == complete_visit_outcome(actor, request_id)
    IN
    /\ UNCHANGED <<now, txn, calls, appsVars, visVars, retry>>
    /\ IF out # Ok
       THEN Reject(op, out)
       ELSE /\ requests' = [requests EXCEPT ![request_id].status = "completed",
                                            ![request_id].completed_at = now,
                                            ![request_id].completed_by = actor]
            /\ result' = Response(op, actor, request_id, 200, "completed", NoToken)
            /\ UNCHANGED <<users, visitors, blacklist, blSeq, notifications>>

(* verify_visitor_qr without the status filter of its query *)
ApprovedByToken_any_status(qr) ==
    First({i \in Ids(requests) : requests[i].qr_code = qr})

(* The row verify_visitor_qr finds:                                        *)
(* filter(qr_code == qr_code, status == "approved").first()                *)
ApprovedByToken(qr) ==
    First({i \in Ids(requests) : requests[i].qr_code = qr /\ requests[i].status = "approved"})

verify_visitor_qr_outcome(actor, qr) ==
    IF ~ApprovedAs(actor, "security") THEN <<403, "access_denied">>
    ELSE IF ApprovedByToken(qr) = 0 THEN <<404, "invalid_qr_or_not_approved">>
    ELSE IF requests[ApprovedByToken(qr)].visit_date # Today THEN <<400, "not_today">>
    ELSE Ok

(* GET /security/verify-visitor/{qr_code} *)
verify_visitor_qr(actor, qr) ==
    LET op == "verify_visitor_qr"
        out == verify_visitor_qr_outcome(actor, qr)
    IN
    /\ UNCHANGED <<now, txn, calls, appsVars, visVars, retry>>
    /\ IF out # Ok
       THEN Reject(op, out)
       ELSE /\ result' = Response(op, actor, ApprovedByToken(qr), 200, "verified", qr)
            /\ UNCHANGED <<users, visitors, requests, blacklist, blSeq, notifications>>

remove_from_blacklist_outcome(actor, blacklist_id) ==
    IF users[actor].role # "admin" THEN <<403, "access_denied">>
    ELSE IF \A b \in blacklist : b.id # blacklist_id THEN <<404, "entry_not_found">>
    ELSE Ok

(* DELETE /admin/blacklist/{blacklist_id} *)
remove_from_blacklist(actor, blacklist_id) ==
    LET op == "remove_from_blacklist"
        out == remove_from_blacklist_outcome(actor, blacklist_id)
    IN
    /\ UNCHANGED <<now, txn, calls, appsVars, visVars, retry>>
    /\ IF out # Ok
       THEN Reject(op, out)
       ELSE /\ blacklist' = {b \in blacklist : b.id # blacklist_id}
            /\ result' = Response(op, actor, blacklist_id, 200, "removed", NoToken)
            /\ UNCHANGED <<users, visitors, requests, blSeq, notifications>>

(* The tokens a caller can present: every token issued so far, and one     *)
(* that never was                                                          *)
Tokens == ({requests[i].qr_code : i \in Ids(requests)} \cup {BogusToken}) \ {NoToken}

NextApp ==
    \/ Tick
    \/ \E p \in Phones, r \in Users, d \in Days : register_visit_request(p, r, d)
    \/ \E a \in Users, p \in Phones, d \in Days : register_visitor(a, p, d)
    \/ \E a \in Users, p \in Phones, r \in Users : record_walk_in_entry(a, p, r)
    \/ \E a \in Users, id \in RequestIds : approve_visit_request(a, id)
    \/ \E a \in Users, id \in RequestIds : deny_visit_request(a, id)
    \/ \E id \in RequestIds, p \in Phones : cancel_visit_request(id, p)
    \/ \E a \in Users, id \in RequestIds : complete_visit(a, id)
    \/ \E a \in Users, qr \in Tokens : verify_visitor_qr(a, qr)
    \/ \E a \in Users, id \in 1 .. blSeq : remove_from_blacklist(a, id)

Spec == Init /\ [][NextApp]_vars

---------------------------------------------------------------------------
(* app/ : the blacklist check on a table that holds a temporary entry *)

(* Blacklist.is_expired *)
is_expired(b) == ~b.is_permanent /\ b.expires_at # NoTime /\ now > b.expires_at

(* Blacklist.is_valid : a property of the row that no query of the         *)
(* handlers reads; they filter on is_active == True (ActiveBlacklist)      *)
is_valid(b) == b.is_active /\ ~is_expired(b)

(* GET /visitor/check-blacklist/{phone_number}/{resident_id} : the body *)
check_blacklist_status_outcome(phone, resident_id) ==
    IF ActiveBlacklist(phone, resident_id) # {}
    THEN <<200, "is_blacklisted">>
    ELSE <<200, "not_blacklisted">>

check_blacklist_status(phone, resident_id) ==
    /\ result' = Response("check_blacklist_status", NoUser, 0, 200,
                          check_blacklist_status_outcome(phone, resident_id)[2], NoToken)
    /\ UNCHANGED <<users, visitors, requests, blacklist, blSeq, notifications>>
    /\ UNCHANGED <<now, txn, calls, appsVars, visVars, retry>>

(* The rows the blacklist table can hold: is_permanent and expires_at are  *)
(* columns of the table; a row is permanent (no expires_at) or temporary   *)
(* (is_permanent false, expires_at a day), and it can be switched off      *)
LedgerRows ==
    {[NewBlacklist(1, p, r, r) EXCEPT !.is_permanent = (e = NoTime), !.expires_at = e,
                                      !.is_active = act] :
        p \in Phones, r \in Residents, e \in Days \cup {NoTime}, act \in BOOLEAN}

(* The service starts on a table that holds one row *)
InitLedger == \E b \in LedgerRows : InitTable({b})

NextLedger ==
    \/ Tick
    \/ \E p \in Phones, r \in Residents, d \in Days : register_visit_request(p, r, d)
    \/ \E a \in Users, p \in Phones, r \in Residents : record_walk_in_entry(a, p, r)
    \/ \E p \in Phones, r \in Residents : check_blacklist_status(p, r)

SpecLedger == InitLedger /\ [][NextLedger]_vars

---------------------------------------------------------------------------
(* app/ : tokens on a wall clock *)

(* The values datetime.utcnow().timestamp() can return within a day: the   *)
(* wall clock has a finite resolution and can be set back, so two calls    *)
(* can read the same value                                                 *)
MaxReading == 1
ClockReadings == {<<now, k>> : k \in 0 .. MaxReading}

NextTokens ==
    \/ Tick
    \/ \E p \in Phones, r \in Residents, d \in Days : register_visit_request(p, r, d)
    \/ \E a \in Users, id \in RequestIds, ts \in ClockReadings :
          approve_visit_request_at(a, id, ts)
    \/ \E a \in Users, qr \in Tokens : verify_visitor_qr(a, qr)

SpecTokens == Init /\ [][NextTokens]_vars

---------------------------------------------------------------------------
(* app/ : the visitor form with the contact details it carries *)

(* The visitors table after the handler's writes to its session: a new row *)
(* (db.add, db.flush), or the name of the existing row replaced by the     *)
(* name on the form ("if visit_data.name: existing_visitor.name = ...")    *)
SessionVisitors(phone, name) ==
    IF VisitorByPhone(phone) = 0
    THEN Append(visitors, [phone_number |-> phone, name |-> name])
    ELSE [visitors EXCEPT ![VisitorByPhone(phone)].name = name]

(* register_visit_request whose session is committed when the call is      *)
(* rejected for a duplicate                                                *)
register_visit_request_form_committing(phone, name, resident_id, visit_date) ==
    LET op == "register_visit_request"
        out == register_visit_request_outcome(phone, resident_id, visit_date)
    IN
    /\ UNCHANGED <<now, txn, calls, appsVars, visVars, retry>>
    /\ IF out # Ok
       THEN /\ visitors' = IF out[2] = "duplicate_pending"
                           THEN SessionVisitors(phone, name) ELSE visitors
            /\ UNCHANGED <<result, users, requests, blacklist, blSeq, notifications>>
       ELSE /\ Len(requests) < MaxRequests
            /\ visitors' = SessionVisitors(phone, name)
            /\ requests' = Append(requests,
                   NewRequest(VisitorIdFor(phone), resident_id, visit_date,
                              "pending", FALSE, NoUser))
            /\ notifications' = create_notification(notifications, resident_id, "visit_request")
            /\ result' = Response(op, NoUser, Len(requests) + 1, 200, "created", NoToken)
            /\ UNCHANGED <<users, blacklist, blSeq>>

(* POST /visitor/register with the name on the form. A call that raises    *)
(* HTTPException never reaches db.commit(): the session is rolled back and *)
(* closed, and what it added or changed is not written.                    *)
register_visit_request_form(phone, name, resident_id, visit_date) ==
    LET op == "register_visit_request"
        out == register_visit_request_outcome(phone, resident_id, visit_date)
    IN
    /\ UNCHANGED <<now, txn, calls, appsVars, visVars, retry>>
    /\ IF out # Ok
       THEN Reject(op, out)
       ELSE /\ Len(requests) < MaxRequests
            /\ visitors' = SessionVisitors(phone, name)
            /\ requests' = Append(requests,
                   NewRequest(VisitorIdFor(phone), resident_id, visit_date,
                              "pending", FALSE, NoUser))
            /\ notifications' = create_notification(notifications, resident_id, "visit_request")
            /\ result' = Response(op, NoUser, Len(requests) + 1, 200, "created", NoToken)
            /\ UNCHANGED <<users, blacklist, blSeq>>

NextForm ==
    \/ Tick
    \/ \E p \in Phones, n \in {"name1", "name2"}, r \in Users, d \in Days :
          register_visit_request_form(p, n, r, d)
    \/ \E a \in Users, id \in RequestIds : deny_visit_request(a, id)

SpecForm == Init /\ [][NextForm]_vars

---------------------------------------------------------------------------
(* app/ : accounts. An account that has not registered yet is kept as a    *)
(* row that is neither active nor approved: it cannot sign in and no       *)
(* query of the handlers finds it.                                         *)

register_user_outcome(u) ==
    IF users[u].is_active \/ users[u].is_approved THEN <<400, "already_registered">>
    ELSE Ok

(* POST /auth/register : security personnel are active and approved from   *)
(* the start, a resident waits for the administrator                       *)
register_user(u) ==
    LET out == register_user_outcome(u)
    IN
    /\ UNCHANGED <<now, txn, calls, appsVars, visVars, retry>>
    /\ IF out # Ok
       THEN Reject("register_user", out)
       ELSE /\ users' = [users EXCEPT ![u].is_active = (Role(u) = "security"),
                                      ![u].is_approved = (Role(u) = "security")]
            /\ result' = Response("register_user", u, 0, 200, "registered", NoToken)
            /\ UNCHANGED <<visitors, requests, blacklist, blSeq, notifications>>

(* The calls that bear on who is notified of an approval *)
NextDispatch ==
    \/ Tick
    \/ \E u \in Users : register_user(u)
    \/ \E p \in Phones, r \in Users, d \in Days : register_visit_request(p, r, d)
    \/ \E a \in Users, id \in RequestIds : approve_visit_request(a, id)

SpecDispatch == Init /\ [][NextDispatch]_vars

---------------------------------------------------------------------------
(* app/ : the three creation handlers as tasks of the event loop. A        *)
(* handler runs without giving way from its first query to db.commit();    *)
(* it then awaits create_notification / send_email_notification, and       *)
(* other calls are served before it returns.                               *)

CreateOps == {"register_visit_request", "register_visitor", "record_walk_in_entry"}

create_outcome(op, actor, phone, resident_id, visit_date) ==
    CASE op = "register_visit_request" ->
            register_visit_request_outcome(phone, resident_id, visit_date)
      [] op = "register_visitor" -> register_visitor_outcome(actor, phone)
      [] op = "record_walk_in_entry" -> record_walk_in_entry_outcome(actor, phone, resident_id)

(* The VisitRequest row each handler adds *)
create_row(op, actor, phone, resident_id, visit_date) ==
    CASE op = "register_visit_request" ->
            NewRequest(VisitorIdFor(phone), resident_id, visit_date, "pending", FALSE, NoUser)
      [] op = "register_visitor" ->
            [NewRequest(VisitorIdFor(phone), actor, visit_date, "approved", FALSE, NoUser)
                EXCEPT !.approved_at = now,
                       !.qr_code = generate_qr_code(VisitorIdFor(phone), actor, utcnow_timestamp)]
      [] op = "record_walk_in_entry" ->
            NewRequest(VisitorIdFor(phone), resident_id, Today, "pending", TRUE, actor)

(* email: Optional[EmailStr] = None on the forms. The visitor with phone   *)
(* p1 gives a contact email on every form, the visitor with p2 never does. *)
HasEmail(phone) == phone = "p1"

(* Whom a handler mails after its commit: "if resident.email:" holds for   *)
(* every user (users.email is not nullable), "if visitor.email:" only for  *)
(* a visitor who gave one                                                  *)
MailTo(op, phone) ==
    (IF op \in {"register_visit_request", "record_walk_in_entry"}
     THEN {"resident"} ELSE {})
    \cup (IF op # "record_walk_in_entry" /\ HasEmail(phone) THEN {"visitor"} ELSE {})

(* The outcome of the handler's emails: send_email hands the message to    *)
(* the SMTP server and returns True, or logs the exception and returns     *)
(* False; the caller looks at neither                                      *)
send_email_notification(recipients, delivered) ==
    IF recipients = {} THEN "none" ELSE IF delivered THEN "sent" ELSE "failed"

(* The tasks that have committed and not yet returned *)
Awaiting == {t \in Tasks : calls[t].pc = "awaiting"}

(* A creation call from its start to db.commit() / db.refresh() *)
create_commit(t, op, actor, phone, resident_id, visit_date) ==
    LET out == create_outcome(op, actor, phone, resident_id, visit_date)
        call == [pc |-> "awaiting", op |-> op, actor |-> actor,
                 req |-> Len(requests) + 1, code |-> 0, during |-> Awaiting,
                 mailed |-> {}, mail |-> "none"]
    IN
    /\ UNCHANGED <<now, txn, appsVars, visVars, retry>>
    /\ calls[t].pc = "idle"
    /\ IF op = "register_visit_request" THEN actor = NoUser ELSE actor \in Users
    /\ op = "register_visitor" => resident_id = actor
    /\ op = "record_walk_in_entry" => visit_date = Today
    /\ IF out # Ok
       THEN /\ calls' = [calls EXCEPT ![t] =
                           [call EXCEPT !.pc = "done", !.req = 0, !.code = out[1]]]
            /\ UNCHANGED <<result, users, visitors, requests, blacklist, blSeq, notifications>>
       ELSE /\ Len(requests) < MaxRequests
            /\ visitors' = WithVisitor(phone)
            /\ requests' = Append(requests, create_row(op, actor, phone, resident_id, visit_date))
            /\ calls' = [calls EXCEPT ![t] = call]
            /\ UNCHANGED <<result, users, blacklist, blSeq, notifications>>

(* The awaits after the commit, and the return of the row *)
create_return(t, delivered) ==
    LET op == calls[t].op
        row == requests[calls[t].req]
        to == MailTo(op, visitors[row.visitor_id].phone_number)
    IN
    /\ UNCHANGED <<now, txn, appsVars, visVars, retry>>
    /\ calls[t].pc = "awaiting"
    /\ calls[t].op \in CreateOps
    /\ to = {} => delivered
    /\ notifications' =
          CASE op = "register_visit_request" ->
                  create_notification(notifications, row.resident_id, "visit_request")
            [] op = "register_visitor" ->
                  NotifyAll(notifications, ApprovedSecurity, "visitor_approved")
            [] op = "record_walk_in_entry" ->
                  create_notification(notifications, row.resident_id, "walk_in_request")
    /\ result' = Response(op, calls[t].actor, calls[t].req, 200, "created", row.qr_code)
    /\ calls' = [calls EXCEPT ![t].pc = "done", ![t].code = 200, ![t].mailed = to,
                              ![t].mail = send_email_notification(to, delivered)]
    /\ UNCHANGED <<users, visitors, requests, blacklist, blSeq>>

NextCreateRace ==
    \/ Tick
    \/ \E t \in Tasks, op \in CreateOps, a \in Users \cup {NoUser}, p \in Phones,
          r \in Residents, d \in Days : create_commit(t, op, a, p, r, d)
    \/ \E t \in Tasks, delivered \in BOOLEAN : create_return(t, delivered)

SpecCreateRace == Init /\ [][NextCreateRace]_vars

---------------------------------------------------------------------------
(* app/ : approve and deny as tasks, with the emails after the commit *)

DecideOps == {"approve_visit_request", "deny_visit_request"}

decide_outcome(op, actor, request_id) ==
    IF op = "approve_visit_request" THEN approve_visit_request_outcome(actor, request_id)
    ELSE deny_visit_request_outcome(actor, request_id)

(* approve_visit_request / deny_visit_request from the start to db.commit() *)
decide_commit(t, op, actor, request_id) ==
    LET out == decide_outcome(op, actor, request_id)
        phone == visitors[requests[request_id].visitor_id].phone_number
        qr == generate_qr_code(requests[request_id].visitor_id, actor, utcnow_timestamp)
        call == [pc |-> "awaiting", op |-> op, actor |-> actor, req |-> request_id,
                 code |-> 0, during |-> Awaiting, mailed |-> {}, mail |-> "none"]
    IN
    /\ UNCHANGED <<now, txn, appsVars, visVars, retry>>
    /\ calls[t].pc = "idle"
    /\ IF out # Ok
       THEN /\ calls' = [calls EXCEPT ![t] =
                           [call EXCEPT !.pc = "done", !.req = 0, !.code = out[1]]]
            /\ UNCHANGED <<result, users, visitors, requests, blacklist, blSeq, notifications>>
       ELSE /\ IF op = "approve_visit_request"
               THEN /\ requests' = [requests EXCEPT ![request_id].status = "approved",
                                                    ![request_id].approved_at = now,
                                                    ![request_id].qr_code = qr]
                    /\ UNCHANGED <<blacklist, blSeq>>
               ELSE /\ requests' = [requests EXCEPT ![request_id].status = "denied",
                                                    ![request_id].denied_at = now]
                    /\ blacklist' = blacklist \cup {NewBlacklist(blSeq + 1, phone, actor, actor)}
                    /\ blSeq' = blSeq + 1
            /\ calls' = [calls EXCEPT ![t] = call]
            /\ UNCHANGED <<result, users, visitors, notifications>>

(* decide_return that undoes the transition when the email is not delivered *)
decide_return_rolling_back(t, delivered) ==
    LET op == calls[t].op
        row == requests[calls[t].req]
        to == MailTo(op, visitors[row.visitor_id].phone_number)
    IN
    /\ UNCHANGED <<now, txn, appsVars, visVars, retry>>
    /\ calls[t].pc = "awaiting"
    /\ calls[t].op \in DecideOps
    /\ to = {} => delivered
    /\ notifications' = IF op = "approve_visit_request"
                        THEN NotifyAll(notifications, ApprovedSecurity, "visitor_approved")
                        ELSE notifications
    /\ result' = Response(op, calls[t].actor, calls[t].req, 200,
                          IF op = "approve_visit_request" THEN "approved" ELSE "denied",
                          row.qr_code)
    /\ calls' = [calls EXCEPT ![t].pc = "done", ![t].code = 200, ![t].mailed = to,
                              ![t].mail = send_email_notification(to, delivered)]
    /\ requests' = IF delivered THEN requests
                   ELSE [requests EXCEPT ![calls[t].req].status = "pending",
                                         ![calls[t].req].approved_at = NoTime,
                                         ![calls[t].req].denied_at = NoTime,
                                         ![calls[t].req].qr_code = NoToken]
    /\ UNCHANGED <<users, visitors, blacklist, blSeq>>

(* The awaits after the commit (the notifications of an approval, the      *)
(* email to the visitor) and the return                                    *)
decide_return(t, delivered) ==
    LET op == calls[t].op
        row == requests[calls[t].req]
        to == MailTo(op, visitors[row.visitor_id].phone_number)
    IN
    /\ UNCHANGED <<now, txn, appsVars, visVars, retry>>
    /\ calls[t].pc = "awaiting"
    /\ calls[t].op \in DecideOps
    /\ to = {} => delivered
    /\ notifications' = IF op = "approve_visit_request"
                        THEN NotifyAll(notifications, ApprovedSecurity, "visitor_approved")
                        ELSE notifications
    /\ result' = Response(op, calls[t].actor, calls[t].req, 200,
                          IF op = "approve_visit_request" THEN "approved" ELSE "denied",
                          row.qr_code)
    /\ calls' = [calls EXCEPT ![t].pc = "done", ![t].code = 200, ![t].mailed = to,
                              ![t].mail = send_email_notification(to, delivered)]
    /\ UNCHANGED <<users, visitors, requests, blacklist, blSeq>>

NextMail ==
    \/ Tick
    \/ \E t \in Tasks, op \in CreateOps, a \in Users \cup {NoUser}, p \in Phones,
          r \in Residents, d \in Days : create_commit(t, op, a, p, r, d)
    \/ \E t \in Tasks, delivered \in BOOLEAN : create_return(t, delivered)
    \/ \E t \in Tasks, op \in DecideOps, a \in Users, id \in RequestIds :
          decide_commit(t, op, a, id)
    \/ \E t \in Tasks, delivered \in BOOLEAN : decide_return(t, delivered)

SpecMail == Init /\ [][NextMail]_vars

---------------------------------------------------------------------------
(* app/ : the administrator's calls on resident accounts, as tasks of the  *)
(* event loop. approve_resident commits and then awaits the approval email *)
(* and the notification; reject_resident and delete_resident make their    *)
(* checks, await the email, and only then delete and commit.               *)

(* The users table with the columns approve_resident writes: r1 has been   *)
(* approved by the administrator, r2 has registered and waits              *)
InitAdmin ==
    /\ now = 0
    /\ users = [u \in Users |->
                  [role |-> Role(u), is_approved |-> (u \notin {"r2", "s2"}),
                   is_active |-> (u \notin {"r2", "s2"}),
                   approved_at |-> IF u = "r1" THEN 0 ELSE NoTime,
                   approved_by |-> IF u = "r1" THEN "a1" ELSE NoUser]]
    /\ visitors = <<>>
    /\ requests = <<>>
    /\ blacklist = {}
    /\ blSeq = 0
    /\ notifications = [k \in Users \X NotificationTypes |-> 0]
    /\ result = NoResponse
    /\ txn = [w \in Workers |-> IdleCall]
    /\ calls = [t \in Tasks |-> IdleCreate]
    /\ retry = IdleWrapper
    /\ apps_visitors = <<>>
    /\ apps_requests = <<>>
    /\ apps_blacklist = {}
    /\ apps_notifications = [k \in Users \X AppsNotificationTypes |-> 0]
    /\ apps_result = AppsNoResponse
    /\ visits = <<>>
    /\ logs = <<>>
    /\ vis_notifications = [k \in Users \X VisNotificationTypes |-> 0]
    /\ vis_result = AppsNoResponse

(* db.delete(user) as if no row that refers to the user held it back *)
DeleteBlocked_never(u) == FALSE

(* db.delete(user); db.commit() cannot go through while a row refers to    *)
(* the user through a relationship of User that has no delete cascade and  *)
(* a column that is not nullable: the flush sets visit_requests.resident_id *)
(* and notifications.recipient_id of those rows to NULL, the statement     *)
(* fails, and the handler's "except Exception" rolls back and answers 500. *)
DeleteBlocked(u) ==
    \/ \E i \in Ids(requests) : requests[i].resident_id = u
    \/ \E ty \in NotificationTypes : notifications[<<u, ty>>] > 0

(* require_role("admin"), then the query for User.id == resident_id with   *)
(* User.role == "resident"                                                 *)
admin_outcome(actor, resident_id) ==
    IF users[actor].role # "admin" THEN <<403, "access_denied">>
    ELSE IF users[resident_id].role # "resident" THEN <<404, "resident_not_found">>
    ELSE Ok

(* PUT /admin/residents/{resident_id}/approve, to db.commit() *)
approve_resident(t, actor, resident_id) ==
    LET op == "approve_resident"
        out == IF admin_outcome(actor, resident_id) # Ok THEN admin_outcome(actor, resident_id)
               ELSE IF users[resident_id].is_approved THEN <<400, "already_approved">>
               ELSE Ok
    IN
    /\ UNCHANGED <<now, txn, appsVars, visVars, retry>>
    /\ calls[t].pc = "idle"
    /\ UNCHANGED <<result, visitors, requests, blacklist, blSeq, notifications>>
    /\ IF out # Ok
       THEN /\ calls' = [calls EXCEPT ![t] = [pc |-> "done", op |-> op, actor |-> actor, resident |-> resident_id, code |-> out[1]]]
            /\ UNCHANGED users
       ELSE /\ users' = [users EXCEPT ![resident_id].is_approved = TRUE,
                                      ![resident_id].is_active = TRUE,
                                      ![resident_id].approved_at = now,
                                      ![resident_id].approved_by = actor]
            /\ calls' = [calls EXCEPT ![t] = [pc |-> "awaiting", op |-> op, actor |-> actor, resident |-> resident_id, code |-> 0]]

(* approve_resident after its commit: the approval email, whose failure is *)
(* printed and passed over, and the "Account Approved" notification, which *)
(* needs the row of its recipient                                          *)
approve_resident_return(t) ==
    LET r == calls[t].resident
    IN
    /\ UNCHANGED <<now, txn, appsVars, visVars, retry>>
    /\ calls[t].pc = "awaiting"
    /\ calls[t].op = "approve_resident"
    /\ UNCHANGED <<result, users, visitors, requests, blacklist, blSeq>>
    /\ IF users[r].role = "resident"
       THEN /\ notifications[<<r, "account_status">>] < MaxNotifications
            /\ notifications' = create_notification(notifications, r, "account_status")
            /\ calls' = [calls EXCEPT ![t].pc = "done", ![t].code = 200]
       ELSE /\ calls' = [calls EXCEPT ![t].pc = "done", ![t].code = 500]
            /\ UNCHANGED notifications

(* PUT /admin/residents/{resident_id}/reject, to the await of the          *)
(* rejection email                                                         *)
reject_resident(t, actor, resident_id) ==
    LET op == "reject_resident"
        out == IF admin_outcome(actor, resident_id) # Ok THEN admin_outcome(actor, resident_id)
               ELSE IF users[resident_id].is_approved THEN <<400, "already_approved">>
               ELSE Ok
    IN
    /\ UNCHANGED <<now, txn, appsVars, visVars, retry>>
    /\ calls[t].pc = "idle"
    /\ UNCHANGED appVars
    /\ calls' = [calls EXCEPT ![t] =
                    IF out # Ok THEN [pc |-> "done", op |-> op, actor |-> actor, resident |-> resident_id, code |-> out[1]]
                    ELSE [pc |-> "mailing", op |-> op, actor |-> actor, resident |-> resident_id, code |-> 0]]

(* reject_resident after the email: db.delete(resident), db.commit() on    *)
(* the row it loaded before the await                                      *)
reject_resident_delete(t) ==
    LET r == calls[t].resident
    IN
    /\ UNCHANGED <<now, txn, appsVars, visVars, retry>>
    /\ calls[t].pc = "mailing"
    /\ calls[t].op = "reject_resident"
    /\ UNCHANGED <<result, visitors, requests, blacklist, blSeq, notifications>>
    /\ IF DeleteBlocked(r)
       THEN /\ calls' = [calls EXCEPT ![t].pc = "done", ![t].code = 500]
            /\ UNCHANGED users
       ELSE /\ users' = [users EXCEPT ![r].role = "none", ![r].is_approved = FALSE,
                                      ![r].is_active = FALSE]
            /\ calls' = [calls EXCEPT ![t].pc = "done", ![t].code = 200]

(* DELETE /admin/residents/{resident_id}, to the await of the deletion     *)
(* email: refused while the resident has a pending or approved request     *)
delete_resident(t, actor, resident_id) ==
    LET op == "delete_resident"
        active_visits == {i \in Ids(requests) :
                            /\ requests[i].resident_id = resident_id
                            /\ requests[i].status \in {"pending", "approved"}}
        out == IF admin_outcome(actor, resident_id) # Ok THEN admin_outcome(actor, resident_id)
               ELSE IF active_visits # {} THEN <<400, "active_visits">>
               ELSE Ok
    IN
    /\ UNCHANGED <<now, txn, appsVars, visVars, retry>>
    /\ calls[t].pc = "idle"
    /\ UNCHANGED appVars
    /\ calls' = [calls EXCEPT ![t] =
                    IF out # Ok THEN [pc |-> "done", op |-> op, actor |-> actor, resident |-> resident_id, code |-> out[1]]
                    ELSE [pc |-> "mailing", op |-> op, actor |-> actor, resident |-> resident_id, code |-> 0]]

(* delete_resident after the email: db.delete(resident), db.commit() *)
delete_resident_delete(t) ==
    LET r == calls[t].resident
    IN
    /\ UNCHANGED <<now, txn, appsVars, visVars, retry>>
    /\ calls[t].pc = "mailing"
    /\ calls[t].op = "delete_resident"
    /\ UNCHANGED <<result, visitors, requests, blacklist, blSeq, notifications>>
    /\ IF DeleteBlocked(r)
       THEN /\ calls' = [calls EXCEPT ![t].pc = "done", ![t].code = 500]
            /\ UNCHANGED users
       ELSE /\ users' = [users EXCEPT ![r].role = "none", ![r].is_approved = FALSE,
                                      ![r].is_active = FALSE]
            /\ calls' = [calls EXCEPT ![t].pc = "done", ![t].code = 200]

(* The administrator and a security officer call for either resident;    *)
(* visitors come for them through the form and at the gate                 *)
NextAdmin ==
    \/ Tick
    \/ \E t \in Tasks, a \in {"a1", "s1"}, r \in Residents : approve_resident(t, a, r)
    \/ \E t \in Tasks : approve_resident_return(t)
    \/ \E t \in Tasks, a \in {"a1", "s1"}, r \in Residents : reject_resident(t, a, r)
    \/ \E t \in Tasks : reject_resident_delete(t)
    \/ \E t \in Tasks, a \in {"a1", "s1"}, r \in Residents : delete_resident(t, a, r)
    \/ \E t \in Tasks : delete_resident_delete(t)
    \/ \E r \in Residents : register_visit_request("p1", r, Today)
    \/ \E r \in Residents : record_walk_in_entry("s1", "p2", r)
    \/ \E a \in Residents, id \in RequestIds : deny_visit_request(a, id)

SpecAdmin == InitAdmin /\ [][NextAdmin]_vars

---------------------------------------------------------------------------
(* app/utils/helpers.py : the retry_on_exception decorator. The decorated  *)
(* function returns, raises one of the listed exceptions ("e1", "e2") or   *)
(* raises another one ("other").                                           *)

MaxRetries == 2    \* max_retries ranges over 0..MaxRetries

(* one pass of "for attempt in range(max_retries + 2)" *)
wrapper_one_more(outcome) ==
    /\ retry.pc = "loop"
    /\ UNCHANGED <<now, appVars, txn, calls, appsVars, visVars>>
    /\ retry' =
          IF outcome = "return"
          THEN [retry EXCEPT !.called = Append(@, outcome), !.pc = "returned"]
          ELSE IF outcome = "other"
          THEN [retry EXCEPT !.called = Append(@, outcome), !.pc = "raised",
                             !.raised = outcome]
          ELSE IF retry.attempt < retry.max_retries + 1
          THEN [retry EXCEPT !.called = Append(@, outcome), !.last_exception = outcome,
                             !.slept = @ + retry.current_delay,
                             !.current_delay = @ * retry.backoff,
                             !.attempt = @ + 1]
          ELSE [retry EXCEPT !.called = Append(@, outcome), !.last_exception = outcome,
                             !.attempt = @ + 1, !.pc = "raised", !.raised = outcome]

(* A call of the function decorated with                                   *)
(* @retry_on_exception(max_retries, delay, backoff, exceptions=(e1, e2)):    *)
(* last_exception = None, current_delay = delay                            *)
retry_on_exception(max_retries, delay, backoff) ==
    /\ retry.pc = "idle"
    /\ UNCHANGED <<now, appVars, txn, calls, appsVars, visVars>>
    /\ retry' = [pc |-> "loop", max_retries |-> max_retries, attempt |-> 0,
                 current_delay |-> delay, backoff |-> backoff,
                 last_exception |-> "None", called |-> <<>>, slept |-> 0,
                 raised |-> "None"]

(* One pass of "for attempt in range(max_retries + 1)": func is called and *)
(* its value returned; an exception that is not listed leaves the wrapper; *)
(* a listed one is kept as last_exception, followed by time.sleep and the  *)
(* backoff when attempts remain, and by "raise last_exception" after the   *)
(* last pass                                                               *)
wrapper(outcome) ==
    /\ retry.pc = "loop"
    /\ UNCHANGED <<now, appVars, txn, calls, appsVars, visVars>>
    /\ retry' =
          IF outcome = "return"
          THEN [retry EXCEPT !.called = Append(@, outcome), !.pc = "returned"]
          ELSE IF outcome = "other"
          THEN [retry EXCEPT !.called = Append(@, outcome), !.pc = "raised",
                             !.raised = outcome]
          ELSE IF retry.attempt < retry.max_retries
          THEN [retry EXCEPT !.called = Append(@, outcome), !.last_exception = outcome,
                             !.slept = @ + retry.current_delay,
                             !.current_delay = @ * retry.backoff,
                             !.attempt = @ + 1]
          ELSE [retry EXCEPT !.called = Append(@, outcome), !.last_exception = outcome,
                             !.attempt = @ + 1, !.pc = "raised", !.raised = outcome]

NextRetry ==
    \/ \E n \in 0 .. MaxRetries, delay \in {0, 1}, backoff \in {1, 2} :
          retry_on_exception(n, delay, backoff)
    \/ \E outcome \in {"return", "e1", "e2", "other"} : wrapper(outcome)

(* The wrapper is sequential code: it goes on when the function it called  *)
(* has returned or raised and when its sleep is over                       *)
SpecRetry == Init /\ [][NextRetry]_vars /\ WF_vars(NextRetry)

---------------------------------------------------------------------------
(* apps/visitors : Django REST framework implementation *)

(* request.user of an authenticated call: an active account *)
ActiveUsers == {u \in Users : u # "s2"}

(* User.objects.filter(user_type='security', is_active=True) *)
ActiveSecurity == {u \in ActiveUsers : Role(u) = "security"}


(* Notification.objects.create(user=..., notification_type=...) *)
apps_notify(table, user, ntype) == [table EXCEPT ![<<user, ntype>>] = @ + 1]

RECURSIVE apps_notify_all(_, _, _)
apps_notify_all(table, recipients, ntype) ==
    IF recipients = {} THEN table
    ELSE LET u == CHOOSE x \in recipients : TRUE
         IN  apps_notify_all(apps_notify(table, u, ntype), recipients \ {u}, ntype)

(* the counters of the notification table stay within MaxNotifications *)
CanNotify(table, recipients, ntype) ==
    \A u \in recipients : table[<<u, ntype>>] < MaxNotifications

(* User.is_approved: False by default, forced to True for admin and       *)
(* security accounts when they are saved. The resident r2 has registered   *)
(* (registration returns an access token) and is not approved yet.         *)
AppsApprovedUsers == {u \in Users : Role(u) \in {"admin", "security"} \/ u # "r2"}

(* permission classes of apps/visitors/permissions.py *)
IsSecurityOrAdmin(u) == u \in ActiveUsers /\ Role(u) \in {"security", "admin"}
IsResidentOrAdmin(u) == u \in ActiveUsers /\ Role(u) \in {"resident", "admin"}

(* Visitor.objects.get_or_create(phone_number=...) *)
AppsVisitorByPhone(phone) ==
    First({i \in Ids(apps_visitors) : apps_visitors[i].phone_number = phone})

AppsVisitorIdFor(phone) ==
    IF AppsVisitorByPhone(phone) = 0 THEN Len(apps_visitors) + 1 ELSE AppsVisitorByPhone(phone)

AppsWithVisitor(phone) ==
    IF AppsVisitorByPhone(phone) = 0
    THEN Append(apps_visitors, [phone_number |-> phone])
    ELSE apps_visitors

(* VisitRequestCreateSerializer.create: the row VisitRequest.objects.create *)
(* writes; status and qr_code take the defaults of the model                *)
VisitRequestCreateSerializer_create(visitor, resident, visit_date) ==
    [visitor |-> visitor, resident |-> resident, visit_date |-> visit_date,
     status |-> "pending", qr_code |-> NoToken, approval_date |-> NoTime,
     security_personnel |-> NoUser, entry_time |-> NoTime, exit_time |-> NoTime]

(* The BlacklistedVisitor table takes a row only if blacklisted_by is set  *)
(* (the column is not nullable) and the visitor has no row yet (visitor is *)
(* a OneToOneField); otherwise the insert raises IntegrityError            *)
BlacklistedVisitor_insertable(table, row) ==
    /\ row.blacklisted_by # NoUser
    /\ \A b \in table : b.visitor # row.visitor

(* BlacklistedVisitor.objects.get_or_create(visitor=, resident=,           *)
(* defaults={'reason': reason}): the table afterwards, and whether the     *)
(* create it falls back to raised IntegrityError                           *)
BlacklistedVisitor_get_or_create(table, visitor, resident, reason) ==
    LET row == [visitor |-> visitor, resident |-> resident, reason |-> reason,
                blacklisted_by |-> NoUser]
    IN  IF \E b \in table : b.visitor = visitor /\ b.resident = resident
        THEN [error |-> FALSE, table |-> table]
        ELSE IF BlacklistedVisitor_insertable(table, row)
             THEN [error |-> FALSE, table |-> table \cup {row}]
             ELSE [error |-> TRUE, table |-> table]

AppsReject(out) ==
    /\ out # Ok
    /\ UNCHANGED appsVars

AppsFrame == UNCHANGED <<now, appVars, txn, calls, visVars, retry>>

(* POST visit-requests/ : VisitRequestListCreateView.perform_create *)
apps_perform_create(actor, phone, resident, visit_date) ==
    LET owner == IF Role(actor) = "resident" THEN actor ELSE resident
        row == VisitRequestCreateSerializer_create(AppsVisitorIdFor(phone), owner, visit_date)
    IN
    /\ AppsFrame
    /\ actor \in ActiveUsers
    /\ Len(apps_requests) < MaxRequests
    /\ apps_visitors' = AppsWithVisitor(phone)
    /\ UNCHANGED apps_blacklist
    /\ IF Role(actor) = "resident"
       THEN /\ CanNotify(apps_notifications, ActiveSecurity, "visit_approved")
            /\ apps_requests' = Append(apps_requests,
                    [row EXCEPT !.status = "approved", !.approval_date = now])
            /\ apps_notifications' =
                    apps_notify_all(apps_notifications, ActiveSecurity, "visit_approved")
       ELSE /\ apps_requests' = Append(apps_requests, row)
            /\ apps_notifications' = apps_notify(apps_notifications, owner, "visit_request")
    /\ apps_result' = AppsResponse("perform_create", Len(apps_requests) + 1, 201, "created")

walk_in_visitor_outcome(actor) ==
    IF ~IsSecurityOrAdmin(actor) THEN <<403, "permission_denied">> ELSE Ok

(* POST walk-in-visitor/ *)
walk_in_visitor(actor, phone, resident, visit_date) ==
    LET out == walk_in_visitor_outcome(actor)
        row == VisitRequestCreateSerializer_create(AppsVisitorIdFor(phone), resident, visit_date)
    IN
    /\ AppsFrame
    /\ IF out # Ok
       THEN AppsReject(out)
       ELSE /\ Len(apps_requests) < MaxRequests
            /\ apps_visitors' = AppsWithVisitor(phone)
            /\ apps_requests' = Append(apps_requests, row)
            /\ apps_notifications' = apps_notify(apps_notifications, resident, "walk_in_visitor")
            /\ apps_result' = AppsResponse("walk_in_visitor", Len(apps_requests) + 1, 201, "created")
            /\ UNCHANGED apps_blacklist

(* approve_visit_request and deny_visit_request of apps/visitors/views.py  *)
(* make the same checks on the row get_object_or_404 loaded                *)
apps_decide_outcome(actor, pk, status) ==
    IF ~IsResidentOrAdmin(actor) THEN <<403, "permission_denied">>
    ELSE IF pk \notin Ids(apps_requests) THEN <<404, "not_found">>
    ELSE IF Role(actor) = "resident" /\ apps_requests[pk].resident # actor
         THEN <<403, "not_your_request">>
    ELSE IF status # "pending" THEN <<400, "not_pending">>
    ELSE Ok

apps_approve_visit_request_outcome(actor, pk) ==
    apps_decide_outcome(actor, pk,
        IF pk \in Ids(apps_requests) THEN apps_requests[pk].status ELSE "")

(* POST visit-requests/<pk>/approve/ *)
apps_approve_visit_request(actor, pk) ==
    LET out == apps_approve_visit_request_outcome(actor, pk)
    IN
    /\ AppsFrame
    /\ IF out # Ok
       THEN AppsReject(out)
       ELSE /\ CanNotify(apps_notifications, ActiveSecurity, "visit_approved")
            /\ apps_requests' = [apps_requests EXCEPT ![pk].status = "approved",
                                                      ![pk].approval_date = now]
            /\ apps_notifications' =
                    apps_notify_all(apps_notifications, ActiveSecurity, "visit_approved")
            /\ apps_result' = AppsResponse("approve_visit_request", pk, 200, "approved")
            /\ UNCHANGED <<apps_visitors, apps_blacklist>>

apps_deny_visit_request_outcome(actor, pk) ==
    apps_decide_outcome(actor, pk,
        IF pk \in Ids(apps_requests) THEN apps_requests[pk].status ELSE "")

(* POST visit-requests/<pk>/deny/ : the status is saved before the         *)
(* blacklist row is written, each in its own autocommit statement          *)
apps_deny_visit_request(actor, pk) ==
    LET out == apps_deny_visit_request_outcome(actor, pk)
        bl == BlacklistedVisitor_get_or_create(apps_blacklist,
                  apps_requests[pk].visitor, apps_requests[pk].resident, "Visit request denied")
    IN
    /\ AppsFrame
    /\ IF out # Ok
       THEN AppsReject(out)
       ELSE /\ apps_requests' = [apps_requests EXCEPT ![pk].status = "denied"]
            /\ UNCHANGED <<apps_visitors, apps_notifications>>
            /\ apps_blacklist' = bl.table
            /\ apps_result' = IF bl.error
                               THEN AppsResponse("deny_visit_request", pk, 500, "IntegrityError")
                               ELSE AppsResponse("deny_visit_request", pk, 200, "denied")

(* VisitRequestDetailView.get_queryset: a resident sees only own rows *)
VisitRequestDetailView_outcome(actor, pk) ==
    IF actor \notin ActiveUsers THEN <<401, "not_authenticated">>
    ELSE IF pk \notin Ids(apps_requests) THEN <<404, "not_found">>
    ELSE IF Role(actor) = "resident" /\ apps_requests[pk].resident # actor
         THEN <<404, "not_found">>
    ELSE Ok

(* PATCH visit-requests/<pk>/ with a status :                              *)
(* VisitRequestDetailView and VisitRequestUpdateSerializer.update          *)
VisitRequestUpdateSerializer_update(actor, pk, new_status) ==
    LET out == VisitRequestDetailView_outcome(actor, pk)
        old_status == apps_requests[pk].status
        bl == BlacklistedVisitor_get_or_create(apps_blacklist,
                  apps_requests[pk].visitor, apps_requests[pk].resident, "Visit request denied")
    IN
    /\ AppsFrame
    /\ IF out # Ok
       THEN AppsReject(out)
       ELSE /\ UNCHANGED apps_visitors
            /\ \/ ~(old_status # new_status /\ new_status = "approved")
               \/ CanNotify(apps_notifications, ActiveSecurity, "visit_approved")
            /\ apps_requests' =
                 IF old_status # new_status /\ new_status = "approved"
                 THEN [apps_requests EXCEPT ![pk].status = new_status,
                                            ![pk].approval_date = now]
                 ELSE [apps_requests EXCEPT ![pk].status = new_status]
            /\ apps_notifications' =
                 IF old_status # new_status /\ new_status = "approved"
                 THEN apps_notify_all(apps_notifications, ActiveSecurity, "visit_approved")
                 ELSE apps_notifications
            /\ apps_blacklist' =
                 IF old_status # new_status /\ new_status = "denied"
                 THEN bl.table
                 ELSE apps_blacklist
            /\ apps_result' =
                 IF old_status # new_status /\ new_status = "denied" /\ bl.error
                 THEN AppsResponse("update", pk, 500, "IntegrityError")
                 ELSE AppsResponse("update", pk, 200, new_status)

(* The add form of the admin site for BlacklistedVisitor: every field of   *)
(* the row is given, and the form refuses a visitor who has a row already   *)
BlacklistedVisitorAdmin_add_outcome(actor, visitor, resident) ==
    IF ~(actor \in ActiveUsers /\ Role(actor) = "admin") THEN <<403, "permission_denied">>
    ELSE IF visitor \notin Ids(apps_visitors) THEN <<400, "invalid_visitor">>
    ELSE IF ~BlacklistedVisitor_insertable(apps_blacklist,
                [visitor |-> visitor, resident |-> resident, reason |-> "admin",
                 blacklisted_by |-> actor])
         THEN <<400, "visitor_already_blacklisted">>
    ELSE Ok

BlacklistedVisitorAdmin_add(actor, visitor, resident) ==
    LET out == BlacklistedVisitorAdmin_add_outcome(actor, visitor, resident)
    IN
    /\ AppsFrame
    /\ IF out # Ok
       THEN AppsReject(out)
       ELSE /\ apps_blacklist' = apps_blacklist \cup
                   {[visitor |-> visitor, resident |-> resident, reason |-> "admin",
                     blacklisted_by |-> actor]}
            /\ apps_result' = AppsResponse("blacklist_add", visitor, 200, "added")
            /\ UNCHANGED <<apps_visitors, apps_requests, apps_notifications>>

apps_remove_from_blacklist_outcome(actor, visitor, resident) ==
    IF ~IsResidentOrAdmin(actor) THEN <<403, "permission_denied">>
    ELSE IF \A b \in apps_blacklist : ~(b.visitor = visitor /\ b.resident = resident)
         THEN <<404, "not_found">>
    ELSE IF Role(actor) = "resident" /\ resident # actor THEN <<403, "not_your_blacklist">>
    ELSE Ok

(* DELETE blacklisted-visitors/<pk>/remove/ : the row is named here by its *)
(* (visitor, resident) pair, which is unique in the table                   *)
apps_remove_from_blacklist(actor, visitor, resident) ==
    LET out == apps_remove_from_blacklist_outcome(actor, visitor, resident)
    IN
    /\ AppsFrame
    /\ IF out # Ok
       THEN AppsReject(out)
       ELSE /\ apps_blacklist' =
                   {b \in apps_blacklist : ~(b.visitor = visitor /\ b.resident = resident)}
            /\ apps_result' = AppsResponse("blacklist_remove", visitor, 200, "removed")
            /\ UNCHANGED <<apps_visitors, apps_requests, apps_notifications>>

(* the phone numbers callers of the Django views present *)
AppsPhones == {"p1"}

VisitorIds == 1 .. Cardinality(AppsPhones)

NextApps ==
    \/ \E a \in Users, p \in AppsPhones, r \in Residents, d \in Days : apps_perform_create(a, p, r, d)
    \/ \E a \in Users, p \in AppsPhones, r \in Residents, d \in Days : walk_in_visitor(a, p, r, d)
    \/ \E a \in Users, pk \in RequestIds : apps_approve_visit_request(a, pk)
    \/ \E a \in Users, pk \in RequestIds : apps_deny_visit_request(a, pk)
    \/ \E a \in Users, pk \in RequestIds, st \in VisitStatus :
          VisitRequestUpdateSerializer_update(a, pk, st)
    \/ \E a \in Users, v \in VisitorIds, r \in Residents : BlacklistedVisitorAdmin_add(a, v, r)
    \/ \E a \in Users, v \in VisitorIds, r \in Residents : apps_remove_from_blacklist(a, v, r)

SpecApps == Init /\ [][NextApps]_vars

---------------------------------------------------------------------------
(* apps/visitors : the gate, where security records entry and exit *)

(* record_entry and record_exit name the row in the body of the call;     *)
(* 0 stands for a body with no visit_request_id                            *)
record_entry_outcome(actor, visit_request_id) ==
    IF ~IsSecurityOrAdmin(actor) THEN <<403, "permission_denied">>
    ELSE IF visit_request_id = 0 THEN <<400, "id_required">>
    ELSE IF visit_request_id \notin Ids(apps_requests) THEN <<404, "not_found">>
    ELSE IF apps_requests[visit_request_id].status # "approved" THEN <<400, "not_approved">>
    ELSE Ok

(* POST record-entry/ *)
record_entry(actor, visit_request_id) ==
    LET out == record_entry_outcome(actor, visit_request_id)
    IN
    /\ AppsFrame
    /\ IF out # Ok
       THEN AppsReject(out)
       ELSE /\ apps_requests' =
                   [apps_requests EXCEPT ![visit_request_id].entry_time = now,
                                         ![visit_request_id].security_personnel = actor]
            /\ apps_result' = AppsResponse("record_entry", visit_request_id, 200, "entered")
            /\ UNCHANGED <<apps_visitors, apps_blacklist, apps_notifications>>

record_exit_outcome(actor, visit_request_id) ==
    IF ~IsSecurityOrAdmin(actor) THEN <<403, "permission_denied">>
    ELSE IF visit_request_id = 0 THEN <<400, "id_required">>
    ELSE IF visit_request_id \notin Ids(apps_requests) THEN <<404, "not_found">>
    ELSE IF apps_requests[visit_request_id].entry_time = NoTime THEN <<400, "not_entered">>
    ELSE IF apps_requests[visit_request_id].exit_time # NoTime THEN <<400, "already_exited">>
    ELSE Ok

(* POST record-exit/ *)
record_exit(actor, visit_request_id) ==
    LET out == record_exit_outcome(actor, visit_request_id)
    IN
    /\ AppsFrame
    /\ IF out # Ok
       THEN AppsReject(out)
       ELSE /\ apps_requests' = [apps_requests EXCEPT ![visit_request_id].exit_time = now]
            /\ apps_result' = AppsResponse("record_exit", visit_request_id, 200, "exited")
            /\ UNCHANGED <<apps_visitors, apps_blacklist, apps_notifications>>

NextAppsGate ==
    \/ Tick
    \/ \E a \in Users, p \in AppsPhones, r \in Residents, d \in Days : apps_perform_create(a, p, r, d)
    \/ \E a \in Users, pk \in RequestIds : apps_approve_visit_request(a, pk)
    \/ \E a \in Users, id \in 0 .. MaxRequests : record_entry(a, id)
    \/ \E a \in Users, id \in 0 .. MaxRequests : record_exit(a, id)

SpecAppsGate == Init /\ [][NextAppsGate]_vars

---------------------------------------------------------------------------
(* apps/visitors approve_visit_request, statement by statement, as two     *)
(* threads of the server run it: no transaction spans the view, each ORM   *)
(* call commits by itself                                                   *)

RaceFrame ==
    UNCHANGED <<now, appVars, calls, visVars, retry, apps_visitors, apps_blacklist, apps_result>>

(* get_object_or_404 and the two checks, made on the instance just loaded *)
approve_load(w, actor, pk) ==
    LET out == apps_approve_visit_request_outcome(actor, pk)
    IN
    /\ RaceFrame
    /\ txn[w].pc = "idle"
    /\ out[1] \notin {401, 403, 404}
    /\ txn' = [txn EXCEPT ![w] =
                 IF out # Ok
                 THEN [pc |-> "done", actor |-> actor, pk |-> pk,
                       visit_request |-> apps_requests[pk], code |-> out[1]]
                 ELSE [pc |-> "loaded", actor |-> actor, pk |-> pk,
                       visit_request |-> apps_requests[pk], code |-> 0]]
    /\ UNCHANGED <<apps_requests, apps_notifications>>

(* visit_request.status = 'approved'; approval_date = timezone.now();     *)
(* visit_request.save() writes every column of the loaded instance         *)
approve_save(w) ==
    /\ RaceFrame
    /\ txn[w].pc = "loaded"
    /\ apps_requests' = [apps_requests EXCEPT ![txn[w].pk] =
                            [txn[w].visit_request EXCEPT !.status = "approved",
                                                         !.approval_date = now]]
    /\ txn' = [txn EXCEPT ![w].pc = "saved"]
    /\ UNCHANGED apps_notifications

(* the loop over the active security users, and the response *)
approve_notify(w) ==
    /\ RaceFrame
    /\ txn[w].pc = "saved"
    /\ CanNotify(apps_notifications, ActiveSecurity, "visit_approved")
    /\ apps_notifications' =
           apps_notify_all(apps_notifications, ActiveSecurity, "visit_approved")
    /\ txn' = [txn EXCEPT ![w].pc = "done", ![w].code = 200]
    /\ UNCHANGED apps_requests

NextAppsRace ==
    \/ Tick
    \/ \E a \in Users, p \in AppsPhones, r \in Residents, d \in Days : apps_perform_create(a, p, r, d)
    \/ \E w \in Workers, a \in Users, pk \in RequestIds : approve_load(w, a, pk)
    \/ \E w \in Workers : approve_save(w)
    \/ \E w \in Workers : approve_notify(w)

SpecAppsRace == Init /\ [][NextAppsRace]_vars

---------------------------------------------------------------------------
(* apps/visitors : two threads in VisitRequestCreateSerializer.create *)

(* the id numbers callers present; visitors.id_number is unique *)
IdNumbers == {"n1", "n2"}

(* the rows of the visitors table with the phone number *)
VisitorsWithPhone(phone) == {i \in Ids(apps_visitors) : apps_visitors[i].phone_number = phone}

(* the rows of the visitors table with the id number *)
VisitorsWithIdNumber(n) == {i \in Ids(apps_visitors) : apps_visitors[i].id_number = n}

VisitorRaceFrame == UNCHANGED <<now, appVars, calls, visVars, retry, apps_blacklist, apps_result>>

(* POST walk-in-visitor/ up to the SELECT of get_or_create: the permission *)
(* check, serializer.is_valid() with the unique validator of id_number,    *)
(* and Visitor.objects.get(phone_number=...), which raises                 *)
(* MultipleObjectsReturned on two rows                                     *)
Visitor_get(w, actor, phone, id_number, resident, visit_date) ==
    LET data == [phone_number |-> phone, id_number |-> id_number,
                 resident |-> resident, visit_date |-> visit_date]
        code == IF VisitorsWithIdNumber(id_number) # {} THEN 400
                ELSE IF Cardinality(VisitorsWithPhone(phone)) > 1 THEN 500
                ELSE 0
    IN
    /\ VisitorRaceFrame
    /\ txn[w].pc = "idle"
    /\ IsSecurityOrAdmin(actor)
    /\ txn' = [txn EXCEPT ![w] =
                 [pc |-> IF code = 0 THEN "got" ELSE "done", actor |-> actor,
                  pk |-> First(VisitorsWithPhone(phone)), visit_request |-> data,
                  code |-> code]]
    /\ UNCHANGED <<apps_visitors, apps_requests, apps_notifications>>

(* The rest of the call: on DoesNotExist the INSERT of the visitor (on     *)
(* IntegrityError a second get, which re-raises when it finds no one row), *)
(* VisitRequest.objects.create, the notification and the response          *)
Visitor_create(w) ==
    LET data == txn[w].visit_request
        fresh == txn[w].pk = 0 /\ VisitorsWithIdNumber(data.id_number) = {}
        again == VisitorsWithPhone(data.phone_number)
        error == txn[w].pk = 0 /\ ~fresh /\ Cardinality(again) # 1
        visitor == IF txn[w].pk # 0 THEN txn[w].pk
                   ELSE IF fresh THEN Len(apps_visitors) + 1
                   ELSE First(again)
    IN
    /\ VisitorRaceFrame
    /\ txn[w].pc = "got"
    /\ IF error
       THEN /\ txn' = [txn EXCEPT ![w].pc = "done", ![w].code = 500]
            /\ UNCHANGED <<apps_visitors, apps_requests, apps_notifications>>
       ELSE /\ Len(apps_requests) < MaxRequests
            /\ CanNotify(apps_notifications, {data.resident}, "walk_in_visitor")
            /\ apps_visitors' =
                  IF fresh
                  THEN Append(apps_visitors, [phone_number |-> data.phone_number,
                                              id_number |-> data.id_number])
                  ELSE apps_visitors
            /\ apps_requests' = Append(apps_requests,
                  VisitRequestCreateSerializer_create(visitor, data.resident, data.visit_date))
            /\ apps_notifications' =
                  apps_notify(apps_notifications, data.resident, "walk_in_visitor")
            /\ txn' = [txn EXCEPT ![w].pc = "done", ![w].pk = visitor, ![w].code = 201]

(* The thread takes the next call *)
Visitor_next(w) ==
    /\ VisitorRaceFrame
    /\ txn[w].pc = "done"
    /\ txn' = [txn EXCEPT ![w] = IdleCall]
    /\ UNCHANGED <<apps_visitors, apps_requests, apps_notifications>>

NextAppsVisitorRace ==
    \/ \E w \in Workers, a \in Users, p \in Phones, n \in IdNumbers, r \in Residents :
          Visitor_get(w, a, p, n, r, Today)
    \/ \E w \in Workers : Visitor_create(w)
    \/ \E w \in Workers : Visitor_next(w)

SpecAppsVisitorRace == Init /\ [][NextAppsVisitorRace]_vars

---------------------------------------------------------------------------
(* apps/visitors : DELETE visitors/<pk>/ *)

(* A primary key is not used again: the slot of a deleted row stays in the *)
(* table, marked                                                           *)
DeletedVisitor == [phone_number |-> NoUser]
DeletedRequest ==
    [VisitRequestCreateSerializer_create(0, NoUser, NoTime) EXCEPT !.status = "deleted"]

(* permission_classes = [IsAuthenticated, IsSecurityOrAdmin], then          *)
(* get_object_or_404 of the generic view                                    *)
VisitorDetailView_destroy_outcome(actor, pk) ==
    IF ~IsSecurityOrAdmin(actor) THEN <<403, "permission_denied">>
    ELSE IF pk \notin Ids(apps_visitors) \/ apps_visitors[pk] = DeletedVisitor
         THEN <<404, "not_found">>
    ELSE Ok

(* DELETE visitors/<pk>/ : DestroyModelMixin.destroy calls instance.delete(), *)
(* and the delete cascades over VisitRequest.visitor and                     *)
(* BlacklistedVisitor.visitor (both on_delete=models.CASCADE)                *)
VisitorDetailView_destroy(actor, pk) ==
    LET out == VisitorDetailView_destroy_outcome(actor, pk)
    IN
    /\ AppsFrame
    /\ IF out # Ok
       THEN AppsReject(out)
       ELSE /\ apps_visitors' = [apps_visitors EXCEPT ![pk] = DeletedVisitor]
            /\ apps_requests' =
                  [i \in Ids(apps_requests) |->
                      IF apps_requests[i].visitor = pk THEN DeletedRequest
                      ELSE apps_requests[i]]
            /\ apps_blacklist' = {b \in apps_blacklist : b.visitor # pk}
            /\ apps_result' = AppsResponse("visitor_destroy", pk, 204, "deleted")
            /\ UNCHANGED apps_notifications

NextAppsDirectory ==
    \/ Tick
    \/ \E a \in Users, p \in Phones, r \in Residents, d \in Days : apps_perform_create(a, p, r, d)
    \/ \E a \in Users, pk \in 1 .. Cardinality(Phones) : VisitorDetailView_destroy(a, pk)

SpecAppsDirectory == Init /\ [][NextAppsDirectory]_vars

---------------------------------------------------------------------------
(* visitors/ : the Django app whose Visitor row is one visit *)

VisFrame == UNCHANGED <<now, appVars, txn, calls, appsVars, retry>>

VisReject(out) ==
    /\ out # Ok
    /\ UNCHANGED visVars

(* a log entry that names the visit's owner instead of request.user *)
VisitorLog_create_for_owner(visitor, action, performed_by) ==
    Append(logs, [visitor |-> visitor, action |-> action,
                  performed_by |-> IF action = "checked_out" THEN visits[visitor].resident
                                   ELSE performed_by])

(* VisitorLog.objects.create(visitor=, action=, performed_by=) *)
VisitorLog_create(visitor, action, performed_by) ==
    Append(logs, [visitor |-> visitor, action |-> action, performed_by |-> performed_by])

(* send_visitor_notification: a Notification row for the recipient, an     *)
(* active NotificationTemplate of the type being in place                  *)
send_visitor_notification(recipient, ntype) ==
    [vis_notifications EXCEPT ![<<recipient, ntype>>] = @ + 1]

VisitorCreateSerializer_outcome(actor, visit_date) ==
    IF actor \notin ActiveUsers THEN <<401, "not_authenticated">>
    ELSE IF visit_date < Today THEN <<400, "visit_date_in_the_past">>
    ELSE Ok

(* POST visitors/ : VisitorCreateSerializer.create and                     *)
(* VisitorListCreateView.perform_create                                    *)
VisitorListCreateView_perform_create(actor, resident, visit_date) ==
    LET out == VisitorCreateSerializer_outcome(actor, visit_date)
    IN
    /\ VisFrame
    /\ IF out # Ok
       THEN VisReject(out)
       ELSE /\ Len(visits) < MaxRequests
            /\ Len(logs) < MaxLogs
            /\ visits' = Append(visits,
                   [resident |-> resident, visit_date |-> visit_date, status |-> "pending",
                    created_by |-> actor, approved_by |-> NoUser, approved_at |-> NoTime,
                    checked_in_at |-> NoTime, checked_in_by |-> NoUser,
                    checked_out_at |-> NoTime])
            /\ logs' = VisitorLog_create(Len(visits) + 1, "created", actor)
            /\ vis_notifications' = send_visitor_notification(resident, "new_visitor_request")
            /\ vis_result' = AppsResponse("perform_create", Len(visits) + 1, 201, "created")

approve_visitor_outcome(actor, pk, action) ==
    IF actor \notin ActiveUsers THEN <<401, "not_authenticated">>
    ELSE IF pk \notin Ids(visits) THEN <<404, "not_found">>
    ELSE IF Role(actor) \notin {"admin", "security"} /\ visits[pk].resident # actor
         THEN <<403, "permission_denied">>
    ELSE IF action \notin {"approve", "deny"} THEN <<400, "invalid_action">>
    ELSE Ok

(* POST visitors/<pk>/approve/ *)
approve_visitor(actor, pk, action) ==
    LET out == approve_visitor_outcome(actor, pk, action)
        new_status == IF action = "approve" THEN "approved" ELSE "denied"
    IN
    /\ VisFrame
    /\ IF out # Ok
       THEN VisReject(out)
       ELSE /\ Len(logs) < MaxLogs
            /\ vis_notifications[<<visits[pk].created_by, "visitor_" \o new_status>>]
                   < MaxNotifications
            /\ visits' = [visits EXCEPT ![pk].status = new_status,
                                        ![pk].approved_by = actor,
                                        ![pk].approved_at = now]
            /\ logs' = VisitorLog_create(pk, new_status, actor)
            /\ vis_notifications' =
                   send_visitor_notification(visits[pk].created_by, "visitor_" \o new_status)
            /\ vis_result' = AppsResponse("approve_visitor", pk, 200, new_status)

(* the checks of check_in_visitor without "if not visitor.can_check_in" *)
check_in_visitor_outcome_any_status(actor, pk) ==
    IF actor \notin ActiveUsers THEN <<401, "not_authenticated">>
    ELSE IF pk \notin Ids(visits) THEN <<404, "not_found">>
    ELSE IF Role(actor) \notin {"admin", "security"} THEN <<403, "permission_denied">>
    ELSE Ok

check_in_visitor_outcome(actor, pk) ==
    IF actor \notin ActiveUsers THEN <<401, "not_authenticated">>
    ELSE IF pk \notin Ids(visits) THEN <<404, "not_found">>
    ELSE IF Role(actor) \notin {"admin", "security"} THEN <<403, "permission_denied">>
    ELSE IF visits[pk].status # "approved" THEN <<400, "cannot_check_in">>
    ELSE Ok

(* POST visitors/<pk>/check-in/ *)
check_in_visitor(actor, pk) ==
    LET out == check_in_visitor_outcome(actor, pk)
    IN
    /\ VisFrame
    /\ IF out # Ok
       THEN VisReject(out)
       ELSE /\ Len(logs) < MaxLogs
            /\ visits' = [visits EXCEPT ![pk].status = "checked_in",
                                        ![pk].checked_in_at = now,
                                        ![pk].checked_in_by = actor]
            /\ logs' = VisitorLog_create(pk, "checked_in", actor)
            /\ vis_notifications' =
                   send_visitor_notification(visits[pk].resident, "visitor_checked_in")
            /\ vis_result' = AppsResponse("check_in_visitor", pk, 200, "checked_in")

check_out_visitor_outcome(actor, pk) ==
    IF actor \notin ActiveUsers THEN <<401, "not_authenticated">>
    ELSE IF pk \notin Ids(visits) THEN <<404, "not_found">>
    ELSE IF Role(actor) \notin {"admin", "security"} THEN <<403, "permission_denied">>
    ELSE IF visits[pk].status # "checked_in" THEN <<400, "cannot_check_out">>
    ELSE Ok

(* POST visitors/<pk>/check-out/ *)
check_out_visitor(actor, pk) ==
    LET out == check_out_visitor_outcome(actor, pk)
    IN
    /\ VisFrame
    /\ IF out # Ok
       THEN VisReject(out)
       ELSE /\ Len(logs) < MaxLogs
            /\ visits' = [visits EXCEPT ![pk].status = "checked_out",
                                        ![pk].checked_out_at = now]
            /\ logs' = VisitorLog_create(pk, "checked_out", actor)
            /\ vis_notifications' =
                   send_visitor_notification(visits[pk].resident, "visitor_checked_out")
            /\ vis_result' = AppsResponse("check_out_visitor", pk, 200, "checked_out")

NextVisitors ==
    \/ Tick
    \/ \E a \in Users, r \in Residents, d \in Days :
          VisitorListCreateView_perform_create(a, r, d)
    \/ \E a \in Users, pk \in RequestIds, action \in {"approve", "deny"} :
          approve_visitor(a, pk, action)
    \/ \E a \in Users, pk \in RequestIds : check_in_visitor(a, pk)
    \/ \E a \in Users, pk \in RequestIds : check_out_visitor(a, pk)

SpecVisitors == Init /\ [][NextVisitors]_vars

---------------------------------------------------------------------------
(* Properties of the visit-request lifecycle *)

(* The requests that carry a token *)
Bound(qr) == {i \in Ids(requests) : requests[i].qr_code = qr}

(* C1: in every reachable state every visit request has one of the five    *)
(* statuses, and it carries a credential token (qr_code) exactly when its  *)
(* status is approved.                                                     *)
C1_TokenIffApproved ==
    \A i \in Ids(requests) :
        /\ requests[i].status \in VisitStatus
        /\ (requests[i].qr_code # NoToken) <=> (requests[i].status = "approved")

(* The active blacklist rows of the pair a request is about, after a step *)
ActiveForRequestAfter(request_id) ==
    {b \in blacklist' :
        /\ b.visitor_phone = visitors[requests[request_id].visitor_id].phone_number
        /\ b.resident_id = requests[request_id].resident_id
        /\ b.is_active}

(* C5: a Deny that goes through leaves exactly one active blacklist entry  *)
(* for the (visitor, resident) pair of the denied request, also when the   *)
(* pair had an active entry before.                                        *)
C5_DenyOneActiveEntry ==
    [][(result' # result /\ result'.op = "deny_visit_request")
          => Cardinality(ActiveForRequestAfter(result'.req)) = 1]_vars

(* C9: whenever Verify answers success, the request that carries the       *)
(* presented token has status approved and is scheduled for today; with    *)
(* the request pending, denied, cancelled, completed or approved for       *)
(* another day, Verify does not answer success.                            *)
C9_VerifyOnlyApprovedToday ==
    [][(result' # result /\ result'.op = "verify_visitor_qr")
          => /\ result'.code = 200
             /\ Bound(result'.qr) # {}
             /\ \A i \in Bound(result'.qr) :
                   /\ requests[i].status = "approved"
                   /\ requests[i].visit_date = Today]_vars

(* A verification went through on the second day, for a request approved   *)
(* for that day, while another request is no longer approved               *)
C9_Witness ==
    /\ result.op = "verify_visitor_qr"
    /\ result.code = 200
    /\ now = MaxDay
    /\ requests[result.req].status = "approved"
    /\ requests[result.req].qr_code = result.qr
    /\ \E i \in Ids(requests) : requests[i].status = "completed"

(* C10: a failing Verify tells a token whose request is no longer approved *)
(* (NotApproved) from a token no request carries (NotFound): the two get   *)
(* different answers.                                                      *)
C10_NotApprovedIsNotNotFound ==
    \A a \in Users, qr \in Tokens :
        (/\ ApprovedAs(a, "security")
         /\ Bound(qr) # {}
         /\ \A i \in Bound(qr) : requests[i].status # "approved")
        => verify_visitor_qr_outcome(a, qr) # verify_visitor_qr_outcome(a, BogusToken)

(* The statuses the lifecycle never leaves *)
Terminal == {"denied", "completed", "cancelled"}

(* C3: denied, completed and cancelled are terminal: no operation changes  *)
(* the status of a visit request that has one of them.                     *)
C3_TerminalStays ==
    [][\A i \in Ids(apps_requests) :
          apps_requests[i].status \in Terminal
              => apps_requests'[i].status = apps_requests[i].status]_vars

(* The rows of the Django blacklist table for a (visitor, resident) pair *)
AppsEntries(visitor, resident) ==
    {b \in apps_blacklist : b.visitor = visitor /\ b.resident = resident}

(* The row a step added to the visit-request table *)
AppsCreated == apps_requests'[Len(apps_requests')]

(* C6: while a blacklist entry exists for a (visitor, resident) pair, no   *)
(* creation path (Create by a visitor or a resident, RecordWalkIn by       *)
(* security) creates a visit request for that pair.                        *)
C6_BlacklistedPairCreatesNothing ==
    [][Len(apps_requests') > Len(apps_requests)
          => AppsEntries(AppsCreated.visitor, AppsCreated.resident) = {}]_vars

(* C7: after Deny went through on a pending request of visitor V to       *)
(* resident R, and with the pair's blacklist entry still there, a Create   *)
(* from V to R, for any date, does not go through.                         *)
C7_NoCreateAfterDeny ==
    [][(/\ apps_result.op = "deny_visit_request"
        /\ apps_result.code = 200
        /\ Len(apps_requests') > Len(apps_requests))
          => \/ AppsCreated.visitor # apps_requests[apps_result.req].visitor
             \/ AppsCreated.resident # apps_requests[apps_result.req].resident
             \/ AppsEntries(AppsCreated.visitor, AppsCreated.resident) = {}]_vars

(* C8: blacklist entries are per (visitor, resident) pair: a pair that has *)
(* no entry can be given one, whatever entries the visitor has against     *)
(* other residents.                                                        *)
C8_EntriesPerPair ==
    \A v \in Ids(apps_visitors), r \in Residents :
        AppsEntries(v, r) = {} => BlacklistedVisitorAdmin_add_outcome("a1", v, r) = Ok

(* C4: of two Approve calls on the same request that run at the same      *)
(* time, one succeeds and the other does not; the request is approved      *)
(* once, and the security officers are notified once for it.               *)
C4_OneApproveWins ==
    /\ \A v, w \in Workers :
          (/\ v # w
           /\ txn[v].pc = "done" /\ txn[w].pc = "done"
           /\ txn[v].pk = txn[w].pk
           /\ txn[v].code = 200)
          => txn[w].code = 400
    /\ \A s \in ActiveSecurity :
          apps_notifications[<<s, "visit_approved">>]
              <= Cardinality({i \in Ids(apps_requests) : apps_requests[i].status = "approved"})

(* The row a step added to the visitor audit log *)
Logged == logs'[Len(logs')]

(* C2: Approve and Deny go through only on a pending request: invoked on   *)
(* a request in any other status they are refused (InvalidTransition) and  *)
(* leave its status and timestamps as they were.                           *)
C2_DecideOnlyFromPending ==
    [][(Len(logs') > Len(logs) /\ Logged.action \in {"approved", "denied"})
          => visits[Logged.visitor].status = "pending"]_vars

(* The live requests of a (visitor, resident, date) tuple *)
Live(visitor_id, resident_id, visit_date) ==
    {i \in Ids(requests) :
        /\ requests[i].visitor_id = visitor_id
        /\ requests[i].resident_id = resident_id
        /\ requests[i].visit_date = visit_date
        /\ requests[i].status \in {"pending", "approved"}}

(* C11: every creation path refuses a request for a (visitor, resident,    *)
(* date) tuple that has a pending or approved request already, so no       *)
(* tuple ever has more than one live request.                              *)
C11_OneLivePerTuple ==
    \A i \in Ids(requests) :
        Cardinality(Live(requests[i].visitor_id, requests[i].resident_id,
                         requests[i].visit_date)) <= 1

(* The creation calls that went through: they added a row *)
Created == {t \in Tasks : calls[t].req # 0}

(* Two calls are for the same (visitor, resident, date) tuple *)
SameTuple(t, u) ==
    /\ requests[calls[t].req].visitor_id = requests[calls[u].req].visitor_id
    /\ requests[calls[t].req].resident_id = requests[calls[u].req].resident_id
    /\ requests[calls[t].req].visit_date = requests[calls[u].req].visit_date

(* C12: of two Create calls for the same (visitor, resident, date) tuple   *)
(* that are served at the same time, at most one goes through: a call      *)
(* that started while another was still in flight does not add a second    *)
(* live request for the tuple.                                             *)
C12_ConcurrentCreatesNotBoth ==
    \A t \in Created, u \in Created :
        (t # u /\ u \in calls[t].during /\ SameTuple(t, u))
            => \E c \in {t, u} : requests[calls[c].req].status \notin {"pending", "approved"}

(* C13: the initial status is decided once, at Create: a request the       *)
(* resident creates for the visitor starts approved, with the approval     *)
(* time stamped and a credential token issued; a request created on any    *)
(* other path starts pending, with neither.                                *)
C13_InitialStatusAtCreate ==
    [][Len(apps_requests') > Len(apps_requests)
          => \/ /\ AppsCreated.status = "approved"
                /\ AppsCreated.approval_date # NoTime
                /\ AppsCreated.qr_code # NoToken
             \/ /\ AppsCreated.status = "pending"
                /\ AppsCreated.approval_date = NoTime
                /\ AppsCreated.qr_code = NoToken]_vars

(* C14: RecordWalkIn creates the request pending, never approved, whoever  *)
(* the actor is, and stores on it the security officer who recorded it;    *)
(* it makes the blacklist check Create makes.                              *)
C14_WalkInPendingWithOfficer ==
    [][(apps_result' # apps_result /\ apps_result'.op = "walk_in_visitor")
          => /\ apps_requests'[apps_result'.req].status = "pending"
             /\ apps_requests'[apps_result'.req].security_personnel
                   \in SecurityUsers \cup Admins]_vars

(* C15: Approve and Deny go through only for the resident who owns the     *)
(* request or for an administrator; a resident who does not own it and a   *)
(* security officer never change its status.                               *)
C15_DecideByOwnerOrAdmin ==
    [][(Len(logs') > Len(logs) /\ Logged.action \in {"approved", "denied"})
          => \/ Logged.performed_by = visits[Logged.visitor].resident
             \/ Role(Logged.performed_by) = "admin"]_vars

(* C16: a request becomes cancelled only through Cancel, by a caller who   *)
(* gives the phone number of the request's visitor, and only from pending; *)
(* the resident who owns the request has no operation that moves it to     *)
(* cancelled.                                                              *)
C16_ResidentCannotCancel ==
    [][\A r \in Residents, pk \in RequestIds :
          ~(/\ pk \in Ids(apps_requests)
            /\ apps_requests[pk].resident = r
            /\ apps_requests[pk].status # "cancelled"
            /\ apps_requests'[pk].status = "cancelled"
            /\ VisitRequestUpdateSerializer_update(r, pk, "cancelled"))]_vars

(* The pending requests of a (visitor, resident, date) tuple after a step *)
PendingAfter(visitor_id, resident_id, visit_date) ==
    {i \in Ids(requests') :
        /\ requests'[i].visitor_id = visitor_id
        /\ requests'[i].resident_id = resident_id
        /\ requests'[i].visit_date = visit_date
        /\ requests'[i].status = "pending"}

(* C17: a Cancel that goes through leaves the blacklist as it was, and     *)
(* the visitor can afterwards create a request to the same resident: the   *)
(* visitor form is accepted for the pair unless the pair was blacklisted   *)
(* before the Cancel or another request of the tuple is still pending.     *)
C17_CancelLeavesBlacklist ==
    [][\A id \in RequestIds, p \in Phones :
          (/\ result' # result
           /\ result'.op = "cancel_visit_request"
           /\ result'.req = id
           /\ visitors[requests[id].visitor_id].phone_number = p)
          => /\ requests'[id].status = "cancelled"
             /\ blacklist' = blacklist
             /\ blSeq' = blSeq
             /\ (/\ ActiveBlacklist(p, requests[id].resident_id) = {}
                 /\ PendingAfter(requests[id].visitor_id, requests[id].resident_id,
                                 requests[id].visit_date) = {})
                   => (register_visit_request_outcome(p, requests[id].resident_id,
                                                      requests[id].visit_date))' = Ok]_vars

(* After a Cancel the same visitor created a new request to the same       *)
(* resident for the same date, and no blacklist entry was ever made        *)
C17_Witness ==
    /\ result.op = "register_visit_request"
    /\ blacklist = {}
    /\ blSeq = 0
    /\ \E i \in Ids(requests) :
          /\ i < result.req
          /\ requests[i].status = "cancelled"
          /\ requests[i].visitor_id = requests[result.req].visitor_id
          /\ requests[i].resident_id = requests[result.req].resident_id
          /\ requests[i].visit_date = requests[result.req].visit_date

(* C18: a Complete that goes through stamps completed-at, records the      *)
(* security officer who completed the visit, and creates no notification   *)
(* for any user.                                                           *)
C18_CompleteStampsNoNotification ==
    [][(result' # result /\ result'.op = "complete_visit")
          => /\ requests[result'.req].status = "approved"
             /\ requests'[result'.req].status = "completed"
             /\ requests'[result'.req].completed_at = now
             /\ requests'[result'.req].completed_by = result'.actor
             /\ ApprovedAs(result'.actor, "security")
             /\ notifications' = notifications]_vars

(* A visit was completed on the second day, with notifications of earlier  *)
(* steps in the table                                                      *)
C18_Witness ==
    /\ result.op = "complete_visit"
    /\ now = MaxDay
    /\ requests[result.req].status = "completed"
    /\ requests[result.req].completed_at = now
    /\ requests[result.req].completed_by = result.actor
    /\ \E k \in Users \X NotificationTypes : notifications[k] > 0

(* C19: arrival is recorded only on an approved request that has no        *)
(* arrival yet, departure only after an arrival and only once: a recorded  *)
(* arrival or departure time is never overwritten, and a request with a    *)
(* departure time has an arrival time.                                     *)
C19_ArrivalAndDepartureOnce ==
    [][\A i \in Ids(apps_requests) :
          /\ apps_requests[i].entry_time # NoTime
                => apps_requests'[i].entry_time = apps_requests[i].entry_time
          /\ apps_requests[i].exit_time # NoTime
                => apps_requests'[i].exit_time = apps_requests[i].exit_time
          /\ apps_requests'[i].entry_time # apps_requests[i].entry_time
                => apps_requests[i].status = "approved"
          /\ apps_requests'[i].exit_time # NoTime
                => apps_requests'[i].entry_time # NoTime]_vars

(* C20: when an Approve has gone through, every security officer who is    *)
(* active and approved at that moment has exactly one new notification of  *)
(* the approval, and nobody else has one: the recipients are the officers  *)
(* the users table holds when the notifications are sent.                  *)
C20_ApproveNotifiesSecurityOnce ==
    [][(result' # result /\ result'.op = "approve_visit_request")
          => \A u \in Users, ntype \in NotificationTypes :
                notifications'[<<u, ntype>>] =
                    IF /\ ntype = "visitor_approved"
                       /\ users[u].role = "security"
                       /\ users[u].is_active
                       /\ users[u].is_approved
                    THEN notifications[<<u, ntype>>] + 1
                    ELSE notifications[<<u, ntype>>]]_vars

(* Two approvals went through, and a security officer who registered       *)
(* between them was notified of the second only                            *)
C20_Witness ==
    /\ result.op = "approve_visit_request"
    /\ notifications[<<"s1", "visitor_approved">>] = 2
    /\ notifications[<<"s2", "visitor_approved">>] = 1
    /\ \A r \in Residents : notifications[<<r, "visitor_approved">>] = 0

(* The notification type a handler of app/ passes for the resident *)
ResidentNotice(op) ==
    IF op = "register_visit_request" THEN "visit_request"
    ELSE IF op = "record_walk_in_entry" THEN "walk_in_request"
    ELSE "visit_cancelled"

(* The resident of the request the last response is about *)
ResultOwner == requests[result.req].resident_id

(* C21: a creation that leaves a pending request (the visitor form, the    *)
(* walk-in recorded by security) and a Cancel that goes through each add   *)
(* exactly one notification, for the resident who owns the request, and    *)
(* none for any other user, security officers included.                    *)
C21_OneNoticeToOwner ==
    [][(/\ result' # result
        /\ result'.op \in {"register_visit_request", "record_walk_in_entry",
                           "cancel_visit_request"})
          => /\ (requests[result.req].status)' \in {"pending", "cancelled"}
             /\ \A u \in Users, ntype \in NotificationTypes :
                   notifications'[<<u, ntype>>] =
                       IF u = ResultOwner' /\ ntype = ResidentNotice(result'.op)
                       THEN notifications[<<u, ntype>>] + 1
                       ELSE notifications[<<u, ntype>>]]_vars

(* A walk-in was recorded and a request of the visitor form was cancelled: *)
(* the resident holds one notification of each step, the officers none     *)
C21_Witness ==
    /\ result.op = "cancel_visit_request"
    /\ \E i \in Ids(requests) : requests[i].is_walk_in /\ requests[i].resident_id = ResultOwner
    /\ notifications[<<ResultOwner, "visit_request">>] = 1
    /\ notifications[<<ResultOwner, "walk_in_request">>] = 1
    /\ notifications[<<ResultOwner, "visit_cancelled">>] = 1
    /\ \A s \in SecurityUsers, ntype \in NotificationTypes : notifications[<<s, ntype>>] = 0

(* C22: a Deny that goes through sends a notification to the visitor of    *)
(* the denied request before the call returns.                             *)
C22_DenyTellsVisitor ==
    [][\A t \in Tasks :
          (/\ calls[t].pc = "awaiting"
           /\ calls'[t].pc = "done"
           /\ calls'[t].op = "deny_visit_request")
             => \/ "visitor" \in calls'[t].mailed
                \/ notifications' # notifications]_vars

(* The request row a call has committed carries what its operation wrote *)
Committed(call) ==
    LET row == requests[call.req] IN
    CASE call.op = "approve_visit_request" ->
            /\ row.status = "approved"
            /\ row.approved_at # NoTime
            /\ row.qr_code # NoToken
      [] call.op = "deny_visit_request" ->
            row.status = "denied" /\ row.denied_at # NoTime
      [] call.op = "register_visitor" ->
            row.approved_at # NoTime /\ row.qr_code # NoToken
      [] OTHER -> call.req \in Ids(requests)

(* C23: when the email of an Approve, a Deny or a creation is not          *)
(* delivered, the call still answers 200 and the request keeps the status, *)
(* the timestamp and the token its commit wrote; nothing is undone and the *)
(* finished call is not run again.                                         *)
C23_MailFailureKeepsTransition ==
    [][\A t \in Tasks :
          /\ (calls[t].pc = "awaiting" /\ calls'[t].mail = "failed")
                => /\ calls'[t].pc = "done"
                   /\ calls'[t].code = 200
                   /\ requests' = requests
                   /\ blacklist' = blacklist
                   /\ Committed(calls[t])
                   /\ \A c \in {calls[t]} : Committed(c)'
          /\ calls[t].pc = "done" => calls'[t] = calls[t]]_vars

(* An approval and a denial both lost their email and both stand *)
C23_Witness ==
    \E t1, t2 \in Tasks :
       /\ calls[t1].op = "approve_visit_request" /\ calls[t1].mail = "failed"
       /\ calls[t1].code = 200
       /\ requests[calls[t1].req].status = "approved"
       /\ requests[calls[t1].req].qr_code # NoToken
       /\ calls[t2].op = "register_visit_request" /\ calls[t2].mail = "failed"

(* IsBlacklisted as the claim C24 states it: an entry of the pair that is  *)
(* active and either permanent or not yet expired                          *)
IsBlacklisted(phone, resident_id) ==
    \E b \in blacklist :
       /\ b.visitor_phone = phone
       /\ b.resident_id = resident_id
       /\ b.is_active
       /\ (b.is_permanent \/ (b.expires_at # NoTime /\ b.expires_at >= now))

C25_InsertIdempotent ==
    [][\A id \in RequestIds :
          (/\ result' # result
           /\ result'.op = "deny_visit_request"
           /\ result'.req = id
           /\ ActiveBlacklist(visitors[requests[id].visitor_id].phone_number,
                              requests[id].resident_id) # {})
             => blacklist' = blacklist]_vars

(* C26: a blacklist entry is never physically deleted: every entry of the  *)
(* ledger is still there after any step, with its reason and its imposer,  *)
(* and the entry a Remove names is afterwards inactive.                    *)
C26_RemoveKeepsRow ==
    [][/\ \A b \in blacklist :
             \E c \in blacklist' :
                /\ c.id = b.id
                /\ c.reason = b.reason
                /\ c.blacklisted_by = b.blacklisted_by
       /\ (result' # result /\ result'.op = "remove_from_blacklist")
             => \E c \in blacklist' : c.id = result'.req /\ ~c.is_active]_vars

(* C27: a Create by a visitor or by a resident whose scheduled day is      *)
(* earlier than today is rejected and adds no request; a walk-in recorded  *)
(* by security is dated today and is never rejected for its date.          *)
C27_PastDateRejected ==
    [][Len(requests') > Len(requests)
          => IF result'.op = "record_walk_in_entry"
             THEN (requests[result.req].visit_date)' = now
             ELSE (requests[result.req].visit_date)' >= now]_vars

(* C28: the directory holds at most one Visitor per phone number, also     *)
(* after two calls at the same time that mention the same new number, and  *)
(* every request made for a phone number references that one record.       *)
C28_OneVisitorPerPhone ==
    /\ \A i, j \in Ids(apps_visitors) :
          apps_visitors[i].phone_number = apps_visitors[j].phone_number => i = j
    /\ \A w \in Workers :
          (txn[w].pc = "done" /\ txn[w].code = 201)
             => txn[w].pk = First(VisitorsWithPhone(txn[w].visit_request.phone_number))

(* C29: a Visitor that a visit request references is never deleted: after  *)
(* every step each request that existed still exists, and its visitor      *)
(* reference still resolves to a Visitor of the directory.                  *)
C29_ReferencedVisitorKept ==
    [][\A i \in Ids(apps_requests) :
          apps_requests[i] # DeletedRequest
             => /\ apps_requests'[i] # DeletedRequest
                /\ apps_requests'[i].visitor \in Ids(apps_visitors')
                /\ apps_visitors'[apps_requests'[i].visitor] # DeletedVisitor]_vars

(* C30: Deny and its blacklist entry are one step: whenever a Deny call    *)
(* leaves a request denied, also a call that fails midway, the ledger      *)
(* holds an entry for the (visitor, resident) pair of that request.        *)
C30_DenyAtomicWithEntry ==
    [][(apps_result' # apps_result /\ apps_result'.op = "deny_visit_request")
          => \A i \in Ids(apps_requests) :
                (apps_requests[i].status # "denied" /\ apps_requests'[i].status = "denied")
                   => \E b \in apps_blacklist' :
                         /\ b.visitor = apps_requests[i].visitor
                         /\ b.resident = apps_requests[i].resident]_vars

(* C31: the audit timestamps of a visit agree with its status: approved-at *)
(* is set exactly on a visit that is or has been approved, and a visit     *)
(* that was denied without ever being approved carries no approval time.   *)
C31_TimestampsAgreeWithStatus ==
    \A i \in Ids(visits) :
       /\ (visits[i].approved_at # NoTime)
             <=> \E l \in Ids(logs) : logs[l].visitor = i /\ logs[l].action = "approved"
       /\ visits[i].status = "approved" => visits[i].approved_at # NoTime
       /\ visits[i].status = "pending" => visits[i].approved_at = NoTime

C33_RejectedCreateWritesNothing ==
    [][\A p \in Phones, n \in {"name1", "name2"}, r \in Users, d \in Days :
          (/\ register_visit_request_outcome(p, r, d) # Ok
           /\ register_visit_request_form(p, n, r, d))
             => UNCHANGED <<visitors, requests, notifications, blacklist, users>>]_vars

(* A visitor known under one name has a pending request, so that the same  *)
(* form sent under another name is rejected as a duplicate; another pair   *)
(* is blacklisted                                                          *)
C33_Witness ==
    \E p \in Phones, r \in Residents, d \in Days :
       /\ register_visit_request_outcome(p, r, d) = <<400, "duplicate_pending">>
       /\ visitors[VisitorByPhone(p)].name = "name1"
       /\ \E q \in Phones, u \in Residents :
             register_visit_request_outcome(q, u, d) = <<400, "blacklisted">>

(* C34: an actor whose account is not approved performs no transition: a   *)
(* resident who is not approved cannot create, approve or deny a visit     *)
(* request; each such call is refused with 403 before anything is written. *)
C34_UnapprovedActorForbidden ==
    [][\A a \in Users \ AppsApprovedUsers :
          /\ \A p \in AppsPhones, r \in Residents, d \in Days :
                ~(apps_perform_create(a, p, r, d) /\ apps_requests' # apps_requests)
          /\ \A pk \in RequestIds :
                /\ ~(apps_approve_visit_request(a, pk) /\ apps_requests' # apps_requests)
                /\ ~(apps_deny_visit_request(a, pk) /\ apps_requests' # apps_requests)]_vars

NoOrphan == \A i \in Ids(requests) :
               requests[i].status \in {"pending", "approved"}
                  => users[requests[i].resident_id].role = "resident"

(* C36: no live visit request is orphaned by the deletion of a resident: a *)
(* resident's row is never removed in a state where the resident owns a    *)
(* pending or approved request, and every pending or approved request      *)
(* refers to a resident whose row exists.                                  *)
C36_NoOrphanedRequest ==
    [][/\ \A r \in Residents :
             (users[r].role = "resident" /\ users'[r].role # "resident")
                => ~\E i \in Ids(requests) : /\ requests[i].resident_id = r
                                             /\ requests[i].status \in {"pending", "approved"}
       /\ NoOrphan']_vars

(* delete_resident passed its check, a request for the resident was        *)
(* created during the await of the email, and the deletion was refused     *)
C36_Witness ==
    \E t \in Tasks :
       /\ calls[t].op = "delete_resident" /\ calls[t].pc = "done" /\ calls[t].code = 500
       /\ users[calls[t].resident].role = "resident"
       /\ \E i \in Ids(requests) : /\ requests[i].resident_id = calls[t].resident
                                   /\ requests[i].status = "pending"
       /\ \E u \in Tasks : calls[u].op = "delete_resident" /\ calls[u].code = 200

(* what the wrapper has done so far agrees with the decorator's contract *)
RetryContract ==
    LET n == retry.max_retries
        k == Len(retry.called)
    IN
    /\ k <= n + 1
    /\ \A i \in 1 .. k - 1 : retry.called[i] \in {"e1", "e2"}
    /\ retry.pc = "loop" => k <= n /\ \A i \in 1 .. k : retry.called[i] \in {"e1", "e2"}
    /\ retry.pc = "returned" => retry.called[k] = "return"
    /\ retry.pc = "raised" =>
          /\ retry.raised = retry.called[k]
          /\ retry.raised # "return"
          /\ retry.raised \in {"e1", "e2"} => k = n + 1 /\ retry.raised = retry.last_exception

(* C39: a function wrapped by retry_on_exception(max_retries = n) is       *)
(* called at most n + 1 times: the wrapper returns the value of the first  *)
(* call that raises no listed exception and calls no more, raises the last *)
(* exception after n + 1 failed calls, and every call of it ends.          *)
C39_AtMostNPlusOneCalls ==
    /\ []RetryContract
    /\ [][retry.pc \in {"returned", "raised"} => retry' = retry]_vars
    /\ [](retry.pc = "loop" => <>(retry.pc \in {"returned", "raised"}))

(* every attempt failed, with a different exception at the last one *)
C39_Witness ==
    /\ retry.pc = "raised"
    /\ retry.max_retries = MaxRetries
    /\ Len(retry.called) = MaxRetries + 1
    /\ retry.called[1] = "e1"
    /\ retry.raised = "e2"
    /\ retry.slept = 3

(* the check-in and check-out columns of a visit agree with its status *)
CheckedInOnce(v) ==
    /\ v.status = "checked_in" => v.checked_in_at # NoTime /\ v.checked_in_by # NoUser
    /\ v.status = "checked_out" => v.checked_in_at # NoTime /\ v.checked_out_at # NoTime

(* C37: check-in succeeds only from status approved and check-out only     *)
(* from status checked_in; a visit with status checked_in has              *)
(* checked_in_at and checked_in_by set, a visit with status checked_out    *)
(* has checked_in_at and checked_out_at set, and a visit that was never    *)
(* approved is never checked in.                                           *)
C37_CheckInOnlyWhenApproved ==
    [][\A i \in Ids(visits') :
          /\ CheckedInOnce(visits'[i])
          /\ visits'[i].checked_in_at # NoTime
                => \E l \in Ids(logs') : logs'[l].visitor = i /\ logs'[l].action = "approved"
          /\ i \in Ids(visits) =>
                /\ (visits'[i].status = "checked_in" /\ visits[i] # visits'[i])
                      => visits[i].status = "approved"
                /\ (visits'[i].status = "checked_out" /\ visits[i] # visits'[i])
                      => visits[i].status = "checked_in"]_vars

(* a visit went through approval and check-in and, a day later, check-out *)
C37_Witness ==
    \E i \in Ids(visits) :
       /\ visits[i].status = "checked_out"
       /\ visits[i].approved_at = 0
       /\ visits[i].checked_in_at = 0
       /\ visits[i].checked_out_at = 1
       /\ visits[i].checked_in_by = "s1"

StatusActions == {"approved", "denied", "checked_in", "checked_out"}

(* the status the log gives a visit: the action of its latest entry that   *)
(* records a change of status, pending when it has none                    *)
LoggedStatus(table, i) ==
    LET S == {l \in Ids(table) : table[l].visitor = i /\ table[l].action \in StatusActions}
    IN  IF S = {} THEN "pending"
        ELSE table[CHOOSE l \in S : \A m \in S : m <= l].action

====
